---- MODULE Spec2Model ----
(***************************************************************************)
(* A model of the RAG orchestration core of contract-agent:               *)
(*   server/langgraph-agent.ts  the embedding cache, the rate limiter,     *)
(*                              safeEmbedQuery and the two workflows       *)
(*   server/supabase.ts         the similarity-search wrapper              *)
(*   server/storage.ts          SupabaseStorage                            *)
(* Every request handler is a process; one action is one stretch of code   *)
(* between two awaits of the single event-loop thread.                     *)
(***************************************************************************)
EXTENDS Integers, Sequences, FiniteSets, TLC

VARIABLES
    now,                      \* Date.now(), in milliseconds
    ticks,                    \* how often the clock has advanced
    embeddingCache,           \* Map<string, number[]> in insertion order
    embeddingCallTimestamps,  \* number[]
    providerCalls,            \* history: the time of every embeddings.embedQuery call
    procs,                    \* the request handlers in flight
    supabaseConfigured,       \* getSupabaseClient() returns a client
    templates,                \* the rows of the templates table
    templateEmbeddings,       \* the rows of the template_embeddings table
    memContracts,             \* SupabaseStorage.memContracts, in insertion order
    LLM_PROVIDER              \* process.env.LLM_PROVIDER || "ollama"

embedVars == <<now, ticks, embeddingCache, embeddingCallTimestamps, providerCalls>>

storeVars == <<supabaseConfigured, templates, templateEmbeddings, memContracts, LLM_PROVIDER>>

vars == <<embedVars, procs, storeVars>>

----------------------------------------------------------------------------
(* Bounds of the model *)

(* The request handlers in flight at once. *)
Procs == {1, 2}

MaxTicks == 1

----------------------------------------------------------------------------
(* Program constants *)

CACHE_MAX_SIZE == 500

EVICT_BATCH == 50

EMBEDDING_RATE_LIMIT == 10

RATE_LIMIT_WINDOW == 60000

----------------------------------------------------------------------------
(* Texts are sequences of UTF-16 code units. "Aa" and "BB" are two texts   *)
(* with the same hashString value; LongText makes the 32-bit hash wrap.    *)

TextAa == <<65, 97>>

TextBB == <<66, 66>>

LongText == <<122, 122, 122, 122, 122, 122, 122, 122>>

Texts == {TextAa, TextBB, LongText}

(* The text of a contract: "NDA". *)
ContractText == <<78, 68, 65>>

(* The vectors the embedding provider returns, as points on a line.        *)
Vectors == {1, 2}

NoEmbedding == 0

----------------------------------------------------------------------------
(* Messages are sequences of characters, so that String.includes is        *)
(* computed and not assumed.                                               *)

RateLimitReached == <<"R", "a", "t", "e", " ", "l", "i", "m", "i", "t", " ", "r", "e", "a", "c", "h", "e", "d">>

QuotaExceeded == <<"Q", "u", "o", "t", "a", " ", "e", "x", "c", "e", "e", "d", "e", "d">>

UnknownError == <<"U", "n", "k", "n", "o", "w", "n", " ", "e", "r", "r", "o", "r">>

StrQuota == <<"q", "u", "o", "t", "a">>

StrTooManyRequests == <<"T", "o", "o", " ", "M", "a", "n", "y", " ", "R", "e", "q", "u", "e", "s", "t", "s">>

MsgDailyQuota == <<"d", "a", "i", "l", "y", " ", "q", "u", "o", "t", "a", " ", "h", "i", "t">>

MsgTooMany == <<"4", "2", "9", " ", "T", "o", "o", " ", "M", "a", "n", "y", " ", "R", "e", "q", "u", "e", "s", "t", "s", " ", "n", "o", "w">>

MsgCapitalQuota == <<"Q", "u", "o", "t", "a", " ", "h", "i", "t">>

MsgNoTemplates == <<"N", "o", " ", "t", "e", "m", "p", "l", "a", "t", "e", "s", " ", "a", "v", "a", "i", "l", "a", "b", "l", "e", ".", " ", "P", "l", "e", "a", "s", "e", " ", "u", "p", "l", "o", "a", "d", " ", "t", "e", "m", "p", "l", "a", "t", "e", "s", " ", "f", "i", "r", "s", "t", ".">>

MsgVectorSearchFailed == <<"V", "e", "c", "t", "o", "r", " ", "s", "e", "a", "r", "c", "h", " ", "f", "a", "i", "l", "e", "d", ":", " ">>

MsgEnsureMatchTemplates == <<".", " ", "E", "n", "s", "u", "r", "e", " ", "m", "a", "t", "c", "h", "_", "t", "e", "m", "p", "l", "a", "t", "e", "s", " ", "f", "u", "n", "c", "t", "i", "o", "n", " ", "e", "x", "i", "s", "t", "s", " ", "i", "n", " ", "S", "u", "p", "a", "b", "a", "s", "e", ".">>

MsgNotInitialized == <<"S", "u", "p", "a", "b", "a", "s", "e", " ", "c", "l", "i", "e", "n", "t", " ", "n", "o", "t", " ", "i", "n", "i", "t", "i", "a", "l", "i", "z", "e", "d", ".", " ", "C", "h", "e", "c", "k", " ", "S", "U", "P", "A", "B", "A", "S", "E", "_", "U", "R", "L", " ", "a", "n", "d", " ", "S", "U", "P", "A", "B", "A", "S", "E", "_", "K", "E", "Y", ".">>

MsgFetchFailed == <<"f", "e", "t", "c", "h", " ", "f", "a", "i", "l", "e", "d">>

MsgFailedToGenerate == <<"F", "a", "i", "l", "e", "d", " ", "t", "o", " ", "g", "e", "n", "e", "r", "a", "t", "e", " ", "c", "o", "n", "t", "r", "a", "c", "t">>

MsgBadGateway == <<"b", "a", "d", " ", "g", "a", "t", "e", "w", "a", "y">>

(* The errors embeddings.embedQuery rejects with: status is 0 when the     *)
(* error carries none, message is empty when it carries none.              *)
ProviderErrors ==
    { [status |-> 429, message |-> MsgBadGateway],
      [status |-> 0,   message |-> MsgDailyQuota],
      [status |-> 0,   message |-> MsgTooMany],
      [status |-> 0,   message |-> MsgCapitalQuota],
      [status |-> 0,   message |-> <<>>] }

Includes(s, sub) ==
    \E i \in 1..(Len(s) - Len(sub) + 1) : SubSeq(s, i, i + Len(sub) - 1) = sub

----------------------------------------------------------------------------
(* hashString, langgraph-agent.ts 71-79 *)

(* ToInt32(31 * h + c) for a 32-bit h, computed on 16-bit halves so that   *)
(* no intermediate value leaves the 32-bit range.                          *)
HashStep(h, c) ==
    LET lo    == h % 65536
        hi    == (h \div 65536) % 65536
        loSum == 32 * lo - lo + c
        lo2   == loSum % 65536
        hiSum == 32 * hi - hi + (loSum \div 65536)
        hi2   == hiSum % 65536
    IN  IF hi2 >= 32768 THEN (hi2 - 65536) * 65536 + lo2 ELSE hi2 * 65536 + lo2

RECURSIVE HashFrom(_, _, _)
HashFrom(h, str, i) ==
    IF i > Len(str) THEN h
    ELSE CHOOSE r \in { HashFrom(HashStep(x, str[i]), str, i + 1) : x \in {h} } : TRUE

RECURSIVE Base36Digits(_)
Base36Digits(n) ==
    IF n < 36 THEN <<n>> ELSE Append(Base36Digits(n \div 36), n % 36)

(* Number.prototype.toString(36): the digits of |n|, after a sign (-1).    *)
ToString36(n) ==
    IF n >= 0 THEN Base36Digits(n)
    ELSE LET r == n % 36
             q == IF r = 0 THEN -(n \div 36) ELSE -(n \div 36) - 1
             d == IF r = 0 THEN 0 ELSE 36 - r
         IN  <<-1>> \o (IF q = 0 THEN <<d>> ELSE Append(Base36Digits(q), d))

hashString(str) == ToString36(HashFrom(0, str, 1))

----------------------------------------------------------------------------
(* The embedding cache, langgraph-agent.ts 61-94 *)

CacheKeys(cache) == { cache[i].key : i \in 1..Len(cache) }

CacheLookup(cache, key) ==
    IF key \in CacheKeys(cache)
    THEN (CHOOSE i \in 1..Len(cache) : cache[i].key = key)
    ELSE 0

getCachedEmbedding(cache, text) ==
    LET i == CacheLookup(cache, hashString(text))
    IN  IF i = 0 THEN NoEmbedding ELSE cache[i].embedding

(* A Map.set that leaves a vector half written (shown as its negative). *)
MapSetTorn(cache, key, embedding) ==
    LET i == CacheLookup(cache, key)
    IN  IF i = 0 THEN Append(cache, [key |-> key, embedding |-> -embedding])
        ELSE [cache EXCEPT ![i].embedding = -embedding]

(* Map.set: an existing key keeps its place, a new one goes last. *)
MapSet(cache, key, embedding) ==
    LET i == CacheLookup(cache, key)
    IN  IF i = 0 THEN Append(cache, [key |-> key, embedding |-> embedding])
        ELSE [cache EXCEPT ![i].embedding = embedding]

(* A cache that never evicts. *)
EvictOldestNever(cache) == cache

EvictOldest(cache) ==
    IF Len(cache) >= CACHE_MAX_SIZE
    THEN SubSeq(cache, (IF Len(cache) < EVICT_BATCH THEN Len(cache) ELSE EVICT_BATCH) + 1, Len(cache))
    ELSE cache

(* A cache that evicts but does not store. *)
setCachedEmbeddingDropped(cache, text, embedding) == EvictOldest(cache)

setCachedEmbedding(cache, text, embedding) ==
    MapSet(EvictOldest(cache), hashString(text), embedding)

----------------------------------------------------------------------------
(* The rate limiter, langgraph-agent.ts 65-108 *)

(* A limiter that drops one expired timestamp at most. *)
PruneTimestampsOnce(stamps, t) ==
    IF Len(stamps) > 0 /\ stamps[1] < t - RATE_LIMIT_WINDOW
    THEN Tail(stamps)
    ELSE stamps

(* A limiter that also drops the calls made exactly one window ago. *)
RECURSIVE PruneTimestampsInclusive(_, _)
PruneTimestampsInclusive(stamps, t) ==
    IF Len(stamps) > 0 /\ stamps[1] <= t - RATE_LIMIT_WINDOW
    THEN PruneTimestampsInclusive(Tail(stamps), t)
    ELSE stamps

RECURSIVE PruneTimestamps(_, _)
PruneTimestamps(stamps, t) ==
    IF Len(stamps) > 0 /\ stamps[1] < t - RATE_LIMIT_WINDOW
    THEN PruneTimestamps(Tail(stamps), t)
    ELSE stamps

(* A limiter that admits a call when the window already holds the budget. *)
canMakeEmbeddingCallInclusive(pruned) == Len(pruned) <= EMBEDDING_RATE_LIMIT

(* canMakeEmbeddingCall's answer, on the list it has just pruned. *)
canMakeEmbeddingCall(pruned) == Len(pruned) < EMBEDDING_RATE_LIMIT

recordEmbeddingCall(stamps, t) == Append(stamps, t)

----------------------------------------------------------------------------
(* safeEmbedQuery, langgraph-agent.ts 111-141 *)

NoResult == [st |-> "none", embedding |-> NoEmbedding, error |-> <<>>]

Success(embedding) == [st |-> "ok", embedding |-> embedding, error |-> <<>>]

Failure(reason) == [st |-> "fail", embedding |-> NoEmbedding, error |-> reason]

(* A catch block that looks at the message alone. *)
EmbedErrorResultByMessage(err) ==
    IF Includes(err.message, StrQuota) \/ Includes(err.message, StrTooManyRequests)
    THEN Failure(QuotaExceeded)
    ELSE Failure(IF err.message # <<>> THEN err.message ELSE UnknownError)

(* The catch block, 132-140. *)
EmbedErrorResult(err) ==
    IF err.status = 429 \/ Includes(err.message, StrQuota) \/ Includes(err.message, StrTooManyRequests)
    THEN Failure(QuotaExceeded)
    ELSE Failure(IF err.message # <<>> THEN err.message ELSE UnknownError)

(* A safeEmbedQuery that consults the limiter before the cache. *)
SafeEmbedStartRateFirst(cache, stamps, t, text) ==
    LET cached == getCachedEmbedding(cache, text)
        pruned == PruneTimestamps(stamps, t)
    IN  IF ~canMakeEmbeddingCall(pruned)
        THEN [outcome |-> "limited", result |-> Failure(RateLimitReached), stamps |-> pruned]
        ELSE IF cached # NoEmbedding
        THEN [outcome |-> "hit", result |-> Success(cached), stamps |-> pruned]
        ELSE [outcome |-> "call", result |-> NoResult, stamps |-> recordEmbeddingCall(pruned, t)]

(* A safeEmbedQuery that records the calls it rejects. *)
SafeEmbedStartRecordsRejected(cache, stamps, t, text) ==
    LET cached == getCachedEmbedding(cache, text)
        pruned == PruneTimestamps(stamps, t)
    IN  IF cached # NoEmbedding
        THEN [outcome |-> "hit", result |-> Success(cached), stamps |-> stamps]
        ELSE IF ~canMakeEmbeddingCall(pruned)
        THEN [outcome |-> "limited", result |-> Failure(RateLimitReached),
              stamps |-> recordEmbeddingCall(pruned, t)]
        ELSE [outcome |-> "call", result |-> NoResult, stamps |-> recordEmbeddingCall(pruned, t)]

(* The code up to the await of embeddings.embedQuery, 112-128: the result  *)
(* when the call returns without reaching the provider, and the rate       *)
(* window it leaves.                                                       *)
SafeEmbedStart(cache, stamps, t, text) ==
    LET cached == getCachedEmbedding(cache, text)
        pruned == PruneTimestamps(stamps, t)
    IN  IF cached # NoEmbedding
        THEN [outcome |-> "hit", result |-> Success(cached), stamps |-> stamps]
        ELSE IF ~canMakeEmbeddingCall(pruned)
        THEN [outcome |-> "limited", result |-> Failure(RateLimitReached), stamps |-> pruned]
        ELSE [outcome |-> "call", result |-> NoResult, stamps |-> recordEmbeddingCall(pruned, t)]

(* The provider's answers: a vector, or an error. *)
ProviderAnswers ==
    { [ok |-> TRUE, embedding |-> v, err |-> [status |-> 0, message |-> <<>>]] : v \in Vectors }
    \cup { [ok |-> FALSE, embedding |-> NoEmbedding, err |-> e] : e \in ProviderErrors }

(* A safeEmbedQuery that stores a vector for a call the provider failed. *)
SafeEmbedFinishCachesFailure(cache, text, answer) ==
    IF answer.ok
    THEN [result |-> Success(answer.embedding), cache |-> setCachedEmbedding(cache, text, answer.embedding)]
    ELSE [result |-> EmbedErrorResult(answer.err),
          cache |-> setCachedEmbedding(cache, text, CHOOSE v \in Vectors : TRUE)]

(* The code after the await, 129-140. *)
SafeEmbedFinish(cache, text, answer) ==
    IF answer.ok
    THEN [result |-> Success(answer.embedding), cache |-> setCachedEmbedding(cache, text, answer.embedding)]
    ELSE [result |-> EmbedErrorResult(answer.err), cache |-> cache]

----------------------------------------------------------------------------
(* A direct caller: generateEmbedding(text) (856-859), called twice in     *)
(* immediate succession for the same text.                                 *)

Idle == [kind |-> "idle"]

NoAnswer == [ok |-> FALSE, embedding |-> NoEmbedding, err |-> [status |-> -1, message |-> <<>>]]

(* The caller's record: r1, r2 are the results of its two calls, calls the *)
(* count of its provider calls, a1 the provider's answer to the first call *)
(* (kept until the provider answers the second).                           *)
EmbedCaller(text) ==
    [kind |-> "embed", text |-> text, pc |-> "await1", r1 |-> NoResult, r2 |-> NoResult,
     a1 |-> NoAnswer, calls |-> 0]

(* The second call's synchronous part follows the first call's return. *)
EmbedSecond(p, c, cache, stamps) ==
    LET s == SafeEmbedStart(cache, stamps, now, c.text)
    IN  /\ embeddingCallTimestamps' = s.stamps
        /\ providerCalls' = IF s.outcome = "call" THEN Append(providerCalls, now) ELSE providerCalls
        /\ procs' = [procs EXCEPT ![p] =
                        [c EXCEPT !.r2 = s.result,
                                  !.calls = @ + (IF s.outcome = "call" THEN 1 ELSE 0),
                                  !.pc = IF s.outcome = "call" THEN "await2" ELSE "done"]]

EmbedCall(p, text) ==
    /\ procs[p].kind = "idle"
    /\ \A q \in Procs : q < p => procs[q].kind # "idle"
    /\ LET s == SafeEmbedStart(embeddingCache, embeddingCallTimestamps, now, text)
           c == EmbedCaller(text)
       IN  IF s.outcome = "call"
           THEN /\ embeddingCallTimestamps' = s.stamps
                /\ providerCalls' = Append(providerCalls, now)
                /\ procs' = [procs EXCEPT ![p] = [c EXCEPT !.calls = 1]]
           ELSE \* the first call has returned; the second sees the window it left
                EmbedSecond(p, [c EXCEPT !.r1 = s.result], embeddingCache, s.stamps)
    /\ UNCHANGED <<now, ticks, embeddingCache, storeVars>>

EmbedReturn1(p, answer) ==
    /\ procs[p].kind = "embed"
    /\ procs[p].pc = "await1"
    /\ LET f == SafeEmbedFinish(embeddingCache, procs[p].text, answer)
       IN  /\ embeddingCache' = f.cache
           /\ EmbedSecond(p, [procs[p] EXCEPT !.r1 = f.result, !.a1 = answer], f.cache, embeddingCallTimestamps)
    /\ UNCHANGED <<now, ticks, storeVars>>

EmbedReturn2(p, answer) ==
    /\ procs[p].kind = "embed"
    /\ procs[p].pc = "await2"
    /\ LET f == SafeEmbedFinish(embeddingCache, procs[p].text, answer)
       IN  /\ embeddingCache' = f.cache
           /\ procs' = [procs EXCEPT ![p].r2 = f.result, ![p].a1 = NoAnswer, ![p].pc = "done"]
    /\ UNCHANGED <<now, ticks, embeddingCallTimestamps, providerCalls, storeVars>>

----------------------------------------------------------------------------
(* The Supabase tables: templates (storage.ts) and template_embeddings     *)
(* with its match_templates function (the SQL setup scripts).              *)

NoId == "none"

Null == <<"null">>

MATCH_THRESHOLD == 30

MATCH_COUNT == 5

(* The tables a run starts with. The embedding of "t9" outlived its        *)
(* template: template_embeddings.template_id has no foreign key.           *)
TemplateRows ==
    << [id |-> "t1", content |-> "NDA", usage_count |-> 1],
       [id |-> "t2", content |-> "MSA", usage_count |-> 0] >>

EmbeddingRows ==
    { [template_id |-> "t1", content |-> "NDA", embedding |-> 1],
      [template_id |-> "t9", content |-> "SLA", embedding |-> 2],
      [template_id |-> "t2", content |-> "MSA", embedding |-> 4] }

FarEmbeddingRows == { [template_id |-> "t2", content |-> "MSA", embedding |-> 4] }

(* pgvector's cosine distance a <=> b, in hundredths, of two points. *)
CosineDistance(a, b) == 45 * (IF a > b THEN a - b ELSE b - a)

Similarity(a, b) == 100 - CosineDistance(a, b)

Injective(f) == \A i, j \in DOMAIN f : i # j => f[i] # f[j]

(* .order("usage_count", {ascending: false}): every order of the rows the  *)
(* database may answer with; rows of equal count come in any order.        *)
Listings(rows) ==
    LET n == Len(rows)
    IN  { [i \in 1..n |-> rows[f[i]]] :
            f \in { g \in [1..n -> 1..n] :
                      /\ Injective(g)
                      /\ \A i \in 1..(n - 1) : rows[g[i]].usage_count >= rows[g[i + 1]].usage_count } }

ToTemplate(row) == [id |-> row.id, content |-> row.content]

(* getTemplates, storage.ts 310-342: what it resolves to for the answer of *)
(* the query (ok = FALSE: an error or an exception).                       *)
getTemplates(configured, answer) ==
    IF ~configured THEN <<>>
    ELSE IF ~answer.ok THEN <<>>
    ELSE [i \in 1..Len(answer.rows) |-> ToTemplate(answer.rows[i])]

ListAnswers(rows) ==
    { [ok |-> FALSE, rows |-> <<>>] } \cup { [ok |-> TRUE, rows |-> l] : l \in Listings(rows) }

(* getTemplate, storage.ts 344-377: the template, or NoTemplate for        *)
(* undefined (no client, no such row, an error or an exception).           *)
NoTemplate == [id |-> NoId, content |-> ""]

getTemplate(configured, rows, id, ok) ==
    IF ~configured \/ ~ok \/ ~(\E i \in 1..Len(rows) : rows[i].id = id)
    THEN NoTemplate
    ELSE ToTemplate(rows[CHOOSE i \in 1..Len(rows) : rows[i].id = id])

(* A store that counts every use twice. *)
incrementTemplateUsageTwice(configured, rows, id, ok) ==
    IF ~configured \/ ~ok THEN rows
    ELSE [i \in 1..Len(rows) |->
            IF rows[i].id = id THEN [rows[i] EXCEPT !.usage_count = @ + 2] ELSE rows[i]]

(* incrementTemplateUsage, storage.ts 419-437, with the SQL function       *)
(* increment_template_usage: the table after the call.                     *)
incrementTemplateUsage(configured, rows, id, ok) ==
    IF ~configured \/ ~ok THEN rows
    ELSE [i \in 1..Len(rows) |->
            IF rows[i].id = id THEN [rows[i] EXCEPT !.usage_count = @ + 1] ELSE rows[i]]

(* A search that also takes the rows just as similar as the threshold. *)
match_templatesAtLeast(embRows, query, threshold, count) ==
    LET hits == { r \in embRows : Similarity(r.embedding, query) >= threshold }
        n    == Cardinality(hits)
        k    == IF n < count THEN n ELSE count
    IN  { [i \in 1..k |-> [template_id |-> s[i].template_id, content |-> s[i].content,
                           similarity |-> Similarity(s[i].embedding, query)]] :
            s \in { t \in [1..n -> hits] :
                      /\ Injective(t)
                      /\ \A i \in 1..(n - 1) :
                            CosineDistance(t[i].embedding, query) <= CosineDistance(t[i + 1].embedding, query) } }

(* A search that orders its rows farthest first. *)
match_templatesFarthestFirst(embRows, query, threshold, count) ==
    LET hits == { r \in embRows : Similarity(r.embedding, query) > threshold }
        n    == Cardinality(hits)
        k    == IF n < count THEN n ELSE count
    IN  { [i \in 1..k |-> [template_id |-> s[i].template_id, content |-> s[i].content,
                           similarity |-> Similarity(s[i].embedding, query)]] :
            s \in { t \in [1..n -> hits] :
                      /\ Injective(t)
                      /\ \A i \in 1..(n - 1) :
                            CosineDistance(t[i].embedding, query) >= CosineDistance(t[i + 1].embedding, query) } }

(* A search without LIMIT. *)
match_templatesUnlimited(embRows, query, threshold, count) ==
    LET hits == { r \in embRows : Similarity(r.embedding, query) > threshold }
        n    == Cardinality(hits)
        k    == n
    IN  { [i \in 1..k |-> [template_id |-> s[i].template_id, content |-> s[i].content,
                           similarity |-> Similarity(s[i].embedding, query)]] :
            s \in { t \in [1..n -> hits] :
                      /\ Injective(t)
                      /\ \A i \in 1..(n - 1) :
                            CosineDistance(t[i].embedding, query) <= CosineDistance(t[i + 1].embedding, query) } }

(* match_templates: the rows more similar than the threshold, nearest      *)
(* first, at most match_count of them; equal distances come in any order.  *)
match_templates(embRows, query, threshold, count) ==
    LET hits == { r \in embRows : Similarity(r.embedding, query) > threshold }
        n    == Cardinality(hits)
        k    == IF n < count THEN n ELSE count
    IN  { [i \in 1..k |-> [template_id |-> s[i].template_id, content |-> s[i].content,
                           similarity |-> Similarity(s[i].embedding, query)]] :
            s \in { t \in [1..n -> hits] :
                      /\ Injective(t)
                      /\ \A i \in 1..(n - 1) :
                            CosineDistance(t[i].embedding, query) <= CosineDistance(t[i + 1].embedding, query) } }

(* The data of a response that has none: null, which is no list of rows. *)
NullData == <<[template_id |-> NoId, content |-> "null", similarity |-> 0]>>

(* What client.rpc("match_templates") resolves to (rows, null data, or an  *)
(* error) or throws.                                                       *)
RpcAnswers(embRows, query, threshold, count) ==
    { [kind |-> "data", data |-> d, message |-> <<>>] : d \in match_templates(embRows, query, threshold, count) }
    \cup { [kind |-> "null", data |-> NullData, message |-> <<>>],
           [kind |-> "error", data |-> <<>>, message |-> MsgBadGateway],
           [kind |-> "throw", data |-> <<>>, message |-> MsgFetchFailed] }

(* A wrapper that hands on the data as the server sent it. *)
searchTemplatesByEmbeddingAsSent(configured, answer) ==
    IF ~configured
    THEN [success |-> FALSE, data |-> <<>>, error |-> MsgNotInitialized]
    ELSE [success |-> answer.kind \in {"data", "null"}, data |-> answer.data, error |-> answer.message]

(* searchTemplatesByEmbedding, supabase.ts 38-85. *)
searchTemplatesByEmbedding(configured, answer) ==
    IF ~configured
    THEN [success |-> FALSE, data |-> <<>>, error |-> MsgNotInitialized]
    ELSE IF answer.kind = "error"
    THEN [success |-> FALSE, data |-> <<>>,
          error |-> MsgVectorSearchFailed \o answer.message \o MsgEnsureMatchTemplates]
    ELSE IF answer.kind = "throw"
    THEN [success |-> FALSE, data |-> <<>>, error |-> answer.message]
    ELSE [success |-> TRUE, data |-> IF answer.kind = "null" THEN <<>> ELSE answer.data, error |-> <<>>]

(* checkSupabaseAvailability, supabase.ts 34-36. *)
checkSupabaseAvailability(configured) == configured

----------------------------------------------------------------------------
(* The generation workflow, langgraph-agent.ts 143-353 *)

NoSearch == [st |-> "none", data |-> <<>>]

(* What retrieveTemplates reads of safeEmbedQuery's result. *)
NoEmbeddingResult == [st |-> "none", embedding |-> NoEmbedding]

(* The state routes.ts 81-94 invokes the workflow with, the locals of      *)
(* retrieveTemplates, and the history of the invocation: listed, how many  *)
(* templates getTemplates answered with; usage, the ids it asked the store *)
(* to count a use of; incremented, those the store did count; completions, *)
(* its calls of the completion provider.                                   *)
NewGeneration(text) ==
    [kind |-> "generate", pc |-> "listing", proposal |-> text,
     templateContent |-> "", templateId |-> NoId, relevantTemplates |-> <<>>,
     generatedContent |-> <<>>, contractId |-> 0, useRag |-> FALSE,
     step |-> "retrieve", error |-> Null,
     allTemplates |-> <<>>, embeddingResult |-> NoEmbeddingResult, searchResult |-> NoSearch,
     template |-> NoTemplate, ret |-> <<>>,
     listed |-> -1, usage |-> <<>>, incremented |-> <<>>, completions |-> 0]

(* The partial state a return statement of retrieveTemplates carries. *)
RetrieveReturn(template, relevant, rag) ==
    <<[templateContent |-> template.content, templateId |-> template.id,
       relevantTemplates |-> relevant, useRag |-> rag]>>

FirstTemplate(g) == g.allTemplates[1]

(* A retrieve node that goes on to generate without a template. *)
RetrieveErrorContinues(g) ==
    [g EXCEPT !.step = "generate", !.error = Null, !.completions = @ + 1, !.pc = "invoking"]

(* 163-168: the node returns the error and the graph ends (348-350). *)
RetrieveError(g) == [g EXCEPT !.error = MsgNoTemplates, !.step = "error", !.pc = "done"]

(* A retrieve node that takes the last candidate. *)
BestMatchLast(data) == data[Len(data)]

(* 226: the candidate retrieveTemplates takes. *)
BestMatch(data) == data[1]

(* A fallback that forgets the candidates of the search. *)
FallbackWithUsageNoCandidates(g, relevant) ==
    [g EXCEPT !.ret = RetrieveReturn(FirstTemplate(g), <<>>, FALSE),
              !.usage = Append(@, FirstTemplate(g).id),
              !.pc = "incrementing"]

(* A fallback that awaits incrementTemplateUsage(allTemplates[0].id) before *)
(* it returns: 186-197, 205-219, 229-241.                                  *)
FallbackWithUsage(g, relevant) ==
    [g EXCEPT !.ret = RetrieveReturn(FirstTemplate(g), relevant, FALSE),
              !.usage = Append(@, FirstTemplate(g).id),
              !.pc = "incrementing"]

(* 185-203: the code after safeEmbedQuery has returned. *)
AfterEmbedding(g, result) ==
    LET h == [g EXCEPT !.embeddingResult = [st |-> result.st, embedding |-> result.embedding]]
    IN  IF result.st # "ok" \/ result.embedding = NoEmbedding
        THEN FallbackWithUsage(h, <<>>)
        ELSE [h EXCEPT !.pc = "searching"]

(* The generate node starts when retrieve has returned step = "generate":  *)
(* it awaits llm.invoke(prompt), 281-310.                                  *)
EnterGenerate(g, ret) ==
    [g EXCEPT !.templateContent = ret.templateContent, !.templateId = ret.templateId,
              !.relevantTemplates = ret.relevantTemplates, !.useRag = ret.useRag,
              !.step = "generate", !.error = Null, !.ret = <<>>,
              !.completions = @ + 1, !.pc = "invoking"]

(* The locals of retrieveTemplates are gone once generateContract runs on. *)
ClearLocals(g) ==
    [g EXCEPT !.allTemplates = <<>>, !.embeddingResult = NoEmbeddingResult,
              !.searchResult = NoSearch, !.template = NoTemplate]

GenStart(p, text) ==
    /\ procs[p].kind = "idle"
    /\ \A q \in Procs : q < p => procs[q].kind # "idle"
    /\ procs' = [procs EXCEPT ![p] =
                    IF supabaseConfigured
                    THEN NewGeneration(text)
                    ELSE \* getTemplates answers [] without a query
                         RetrieveError([NewGeneration(text) EXCEPT
                                            !.listed = Len(getTemplates(supabaseConfigured, [ok |-> FALSE, rows |-> <<>>]))])]
    /\ UNCHANGED <<embedVars, storeVars>>

GenListed(p, answer) ==
    /\ procs[p].kind = "generate"
    /\ procs[p].pc = "listing"
    /\ LET all == getTemplates(supabaseConfigured, answer)
           g   == [procs[p] EXCEPT !.allTemplates = all, !.listed = Len(all)]
           s   == SafeEmbedStart(embeddingCache, embeddingCallTimestamps, now, g.proposal)
       IN  IF Len(all) = 0
           THEN /\ procs' = [procs EXCEPT ![p] = RetrieveError(g)]
                /\ UNCHANGED <<embeddingCallTimestamps, providerCalls>>
           ELSE IF ~checkSupabaseAvailability(supabaseConfigured)
           THEN /\ procs' = [procs EXCEPT ![p] =
                                EnterGenerate(g, RetrieveReturn(FirstTemplate(g), <<>>, FALSE)[1])]
                /\ UNCHANGED <<embeddingCallTimestamps, providerCalls>>
           ELSE /\ embeddingCallTimestamps' = s.stamps
                /\ providerCalls' = IF s.outcome = "call" THEN Append(providerCalls, now) ELSE providerCalls
                /\ procs' = [procs EXCEPT ![p] =
                                IF s.outcome = "call" THEN [g EXCEPT !.pc = "embedding"]
                                ELSE AfterEmbedding(g, s.result)]
    /\ UNCHANGED <<now, ticks, embeddingCache, storeVars>>

GenEmbedded(p, answer) ==
    /\ procs[p].kind = "generate"
    /\ procs[p].pc = "embedding"
    /\ LET f == SafeEmbedFinish(embeddingCache, procs[p].proposal, answer)
       IN  /\ embeddingCache' = f.cache
           /\ procs' = [procs EXCEPT ![p] = AfterEmbedding(procs[p], f.result)]
    /\ UNCHANGED <<now, ticks, embeddingCallTimestamps, providerCalls, storeVars>>

(* 199-227: the search has resolved. *)
GenSearched(p) ==
    /\ procs[p].kind = "generate"
    /\ procs[p].pc = "searching"
    /\ \E answer \in RpcAnswers(templateEmbeddings, procs[p].embeddingResult.embedding,
                                MATCH_THRESHOLD, MATCH_COUNT) :
          LET r == searchTemplatesByEmbedding(supabaseConfigured, answer)
              g == [procs[p] EXCEPT !.searchResult =
                        [st |-> IF r.success THEN "ok" ELSE "fail", data |-> r.data]]
          IN  procs' = [procs EXCEPT ![p] =
                            IF ~r.success \/ Len(r.data) = 0
                            THEN FallbackWithUsage(g, <<>>)
                            ELSE [g EXCEPT !.pc = "resolving"]]
    /\ UNCHANGED <<embedVars, storeVars>>

(* 227-253: getTemplate(bestMatch.template_id) has resolved. *)
GenResolved(p, ok) ==
    /\ procs[p].kind = "generate"
    /\ procs[p].pc = "resolving"
    /\ LET g         == procs[p]
           bestMatch == BestMatch(g.searchResult.data)
           template  == getTemplate(supabaseConfigured, templates, bestMatch.template_id, ok)
       IN  procs' = [procs EXCEPT ![p] =
                        IF template = NoTemplate
                        THEN FallbackWithUsage([g EXCEPT !.template = template], g.searchResult.data)
                        ELSE [g EXCEPT !.template = template,
                                       !.ret = RetrieveReturn(template, g.searchResult.data, TRUE),
                                       !.usage = Append(@, template.id),
                                       !.pc = "incrementing"]]
    /\ UNCHANGED <<embedVars, storeVars>>

(* incrementTemplateUsage has resolved: retrieveTemplates returns. *)
GenIncremented(p, ok) ==
    /\ procs[p].kind = "generate"
    /\ procs[p].pc = "incrementing"
    /\ LET g    == procs[p]
           id   == g.usage[Len(g.usage)]
           rows == incrementTemplateUsage(supabaseConfigured, templates, id, ok)
       IN  /\ templates' = rows
           /\ procs' = [procs EXCEPT ![p] =
                            EnterGenerate([g EXCEPT !.incremented = IF rows # templates THEN Append(@, id) ELSE @],
                                          g.ret[1])]
    /\ UNCHANGED <<embedVars, supabaseConfigured, templateEmbeddings, memContracts, LLM_PROVIDER>>

(* An argument that leaves the candidates uncounted. *)
InsertContractNoCount(g, content) ==
    [content |-> content, status |-> "draft",
     generatedFrom |-> g.templateId, ragEnabled |-> g.useRag,
     ragTemplatesUsed |-> 0]

(* The argument of storage.createContract, 313-325. *)
InsertContract(g, content) ==
    [content |-> content, status |-> "draft",
     generatedFrom |-> g.templateId, ragEnabled |-> g.useRag,
     ragTemplatesUsed |-> Len(g.relevantTemplates)]

(* createContract up to its await, storage.ts 249-258: the contract is in  *)
(* memContracts under a fresh id; by is the history of who created it.     *)
createContract(contracts, insert, p) ==
    Append(contracts,
           [id |-> Len(contracts) + 1, content |-> insert.content, status |-> insert.status,
            generatedFrom |-> insert.generatedFrom, ragEnabled |-> insert.ragEnabled,
            ragTemplatesUsed |-> insert.ragTemplatesUsed, by |-> p])

(* A catch block that reports its own message whatever was thrown. *)
GenerateErrorGeneric(g, message) ==
    [ClearLocals(g) EXCEPT !.error = MsgFailedToGenerate, !.step = "error", !.pc = "done"]

(* The catch block of generateContract, 335-341. *)
GenerateError(g, message) ==
    [ClearLocals(g) EXCEPT !.error = message, !.step = "error", !.pc = "done"]

(* llm.invoke has resolved or thrown, 310-341; createContract stores the   *)
(* contract before it awaits the file (storage.ts 249-262).                *)
GenInvoked(p, answer) ==
    /\ procs[p].kind = "generate"
    /\ procs[p].pc = "invoking"
    /\ LET g == procs[p]
       IN  IF answer.ok
           THEN /\ memContracts' = createContract(memContracts, InsertContract(g, answer.content), p)
                /\ procs' = [procs EXCEPT ![p] =
                                [ClearLocals(g) EXCEPT !.ret = <<[generatedContent |-> answer.content,
                                                     contractId |-> Len(memContracts) + 1]>>,
                                          !.pc = "saving"]]
           ELSE /\ memContracts' = memContracts
                /\ procs' = [procs EXCEPT ![p] = GenerateError(g, answer.message)]
    /\ UNCHANGED <<embedVars, supabaseConfigured, templates, templateEmbeddings, LLM_PROVIDER>>

(* saveContractToFile has settled: generateContract returns, 327-334. *)
GenSaved(p) ==
    /\ procs[p].kind = "generate"
    /\ procs[p].pc = "saving"
    /\ procs' = [procs EXCEPT ![p] =
                    [@ EXCEPT !.generatedContent = procs[p].ret[1].generatedContent,
                              !.contractId = procs[p].ret[1].contractId,
                              !.step = "complete", !.error = Null, !.ret = <<>>, !.pc = "done"]]
    /\ UNCHANGED <<embedVars, storeVars>>

(* llm.invoke resolves with a contract's text, or throws. *)
LlmAnswers ==
    { [ok |-> TRUE, content |-> ContractText, message |-> <<>>],
      [ok |-> FALSE, content |-> <<>>, message |-> MsgFetchFailed] }

----------------------------------------------------------------------------
(* The validation workflow, langgraph-agent.ts 355-854 *)

(* The messages of the validation workflow. MsgOllamaConnection stands for  *)
(* the whole remediation hint of line 830.                                 *)
MsgIdOrContent == <<"C", "o", "n", "t", "r", "a", "c", "t", " ", "I", "D", " ", "o", "r", " ", "c", "o", "n", "t", "e", "n", "t", " ", "m", "u", "s", "t", " ", "b", "e", " ", "p", "r", "o", "v", "i", "d", "e", "d">>

MsgContractNotFound == <<"C", "o", "n", "t", "r", "a", "c", "t", " ", "n", "o", "t", " ", "f", "o", "u", "n", "d">>

MsgNoGlobalTemplates == <<"N", "o", " ", "t", "e", "m", "p", "l", "a", "t", "e", "s", " ", "a", "v", "a", "i", "l", "a", "b", "l", "e", " ", "t", "o", " ", "u", "s", "e", " ", "a", "s", " ", "g", "l", "o", "b", "a", "l", " ", "c", "l", "a", "u", "s", "e", "s", ".", " ", "P", "l", "e", "a", "s", "e", " ", "u", "p", "l", "o", "a", "d", " ", "t", "e", "m", "p", "l", "a", "t", "e", "s", " ", "f", "i", "r", "s", "t", ".">>

MsgInvalidFormat == <<"I", "n", "v", "a", "l", "i", "d", " ", "v", "a", "l", "i", "d", "a", "t", "i", "o", "n", " ", "r", "e", "s", "p", "o", "n", "s", "e", " ", "f", "o", "r", "m", "a", "t">>

MsgFailedToValidate == <<"F", "a", "i", "l", "e", "d", " ", "t", "o", " ", "v", "a", "l", "i", "d", "a", "t", "e", " ", "c", "o", "n", "t", "r", "a", "c", "t">>

MsgOllamaConnection == <<"O", "l", "l", "a", "m", "a", " ", "c", "o", "n", "n", "e", "c", "t", "i", "o", "n", " ", "f", "a", "i", "l", "e", "d", ".">>

MsgGeminiConnection == <<"G", "e", "m", "i", "n", "i", " ", "A", "P", "I", " ", "c", "o", "n", "n", "e", "c", "t", "i", "o", "n", " ", "f", "a", "i", "l", "e", "d", ".", " ", "P", "l", "e", "a", "s", "e", " ", "c", "h", "e", "c", "k", " ", "y", "o", "u", "r", " ", "A", "P", "I", " ", "k", "e", "y", " ", "c", "o", "n", "f", "i", "g", "u", "r", "a", "t", "i", "o", "n", ".">>

MsgTooLarge == <<"C", "o", "n", "t", "r", "a", "c", "t", " ", "i", "s", " ", "t", "o", "o", " ", "l", "a", "r", "g", "e", " ", "f", "o", "r", " ", "v", "a", "l", "i", "d", "a", "t", "i", "o", "n", ".", " ", "P", "l", "e", "a", "s", "e", " ", "t", "r", "y", " ", "a", " ", "s", "m", "a", "l", "l", "e", "r", " ", "d", "o", "c", "u", "m", "e", "n", "t", ".">>

StrFetchFailed == <<"f", "e", "t", "c", "h", " ", "f", "a", "i", "l", "e", "d">>

StrContextLength == <<"c", "o", "n", "t", "e", "x", "t", " ", "l", "e", "n", "g", "t", "h">>

StrTooLong == <<"t", "o", "o", " ", "l", "o", "n", "g">>

MsgContextLength == <<"m", "a", "x", "i", "m", "u", "m", " ", "c", "o", "n", "t", "e", "x", "t", " ", "l", "e", "n", "g", "t", "h", " ", "e", "x", "c", "e", "e", "d", "e", "d">>

MsgPromptTooLong == <<"p", "r", "o", "m", "p", "t", " ", "i", "s", " ", "t", "o", "o", " ", "l", "o", "n", "g">>

MsgUnexpectedToken == <<"U", "n", "e", "x", "p", "e", "c", "t", "e", "d", " ", "t", "o", "k", "e", "n">>

CLAUSE_MATCH_COUNT == 2

CONTEXT_MATCH_COUNT == 3

TOP_TEMPLATES == 3

SUMMARY_LENGTH == 1500

EMBEDDING_TEXT_LENGTH == 2000

(* String.prototype.substring(0, n). *)
Substring(text, n) == SubSeq(text, 1, IF Len(text) < n THEN Len(text) ELSE n)

NoJudgment == [status |-> "null"]

NoContract == [id |-> 0]

(* A lookup that answers with the first contract whatever the id. *)
getContractAny(contracts, id) ==
    IF Len(contracts) > 0 THEN contracts[1] ELSE NoContract

(* getContract, storage.ts 245-247. *)
getContract(contracts, id) ==
    IF \E i \in 1..Len(contracts) : contracts[i].id = id
    THEN contracts[CHOOSE i \in 1..Len(contracts) : contracts[i].id = id]
    ELSE NoContract

(* updateContract up to its await, storage.ts 271-281, for a contract that *)
(* exists.                                                                 *)
updateContract(contracts, id, status) ==
    [i \in 1..Len(contracts) |->
        IF contracts[i].id = id THEN [contracts[i] EXCEPT !.status = status] ELSE contracts[i]]

(* deleteContract up to its await, storage.ts 294-296. *)
deleteContract(contracts, id) ==
    LET Kept(c) == c.id # id IN SelectSeq(contracts, Kept)

(* What validationWorkflow.invoke may be called with; a contractId of 0 is *)
(* null, an empty contractContent is "", useGlobalClauses is false when    *)
(* the caller leaves it out (routes.ts 131-140).                           *)
ValidationInputs ==
    [contractId : {0, 1, 7}, contractContent : {<<>>, ContractText},
     proposalText : {<<>>, TextAa}, useGlobalClauses : BOOLEAN]

(* What is thrown: an Error or not, its message, the code of its cause. *)
Thrown(isError, message, code) == [isError |-> isError, message |-> message, code |-> code]

NothingThrown == Thrown(FALSE, <<>>, "none")

NoFailure == [at |-> "none", error |-> <<>>]

(* The state of the graph, the locals of its nodes (content, clauses,      *)
(* embedding, judgment) and the history of the invocation: input, what it *)
(* was called with; reads, its calls of getContract; completions, its      *)
(* calls of the completion provider; mode, the prompt it built; response,  *)
(* the text the provider answered with; updates, the statuses it wrote;    *)
(* ragFailure, the failure its retrieve node logged at 494, 512 or 530;    *)
(* thrown, what the catch block of validateContract caught.                *)
NewValidation(input) ==
    [kind |-> "validate", pc |-> "start",
     contractId |-> input.contractId, contractContent |-> input.contractContent,
     proposalText |-> input.proposalText, useGlobalClauses |-> input.useGlobalClauses,
     relevantContext |-> <<>>, useRag |-> FALSE, globalClausesContent |-> <<>>,
     validationResult |-> NoJudgment, step |-> "retrieve", error |-> Null,
     content |-> <<>>, clauses |-> <<>>, embedding |-> NoEmbedding, judgment |-> NoJudgment,
     input |-> input, reads |-> 0, completions |-> 0, mode |-> "none", updates |-> <<>>,
     response |-> <<>>, ragFailure |-> NoFailure, thrown |-> NothingThrown]

ClearValidationLocals(v) ==
    [v EXCEPT !.content = <<>>, !.clauses = <<>>, !.embedding = NoEmbedding, !.judgment = NoJudgment]

(* A retrieve node that goes on to validate after an error. *)
RetrieveFailedContinues(v, message) ==
    [ClearValidationLocals(v) EXCEPT !.error = message, !.step = "validate",
                                     !.completions = @ + 1, !.pc = "invoking"]

(* retrieveContractAndContext returns an error and the graph ends, 849-851. *)
RetrieveFailed(v, message) ==
    [ClearValidationLocals(v) EXCEPT !.error = message, !.step = "error", !.pc = "done"]

(* 692: the prompt validateContract builds. *)
PromptMode(useGlobalClauses, globalClausesContent) ==
    IF useGlobalClauses /\ globalClausesContent # <<>> THEN "global" ELSE "proposal"

(* retrieveContractAndContext returns step "validate" and validateContract *)
(* runs up to its await of the completion provider, 670-790.               *)
EnterValidate(v, context, rag) ==
    [ClearValidationLocals(v) EXCEPT
        !.contractContent = v.content, !.relevantContext = context, !.useRag = rag,
        !.globalClausesContent = v.clauses, !.step = "validate", !.error = Null,
        !.completions = @ + 1, !.mode = PromptMode(v.useGlobalClauses, v.clauses),
        !.pc = "invoking"]

(* The returns of 493-503, 511-521 and 529-539: the failure is logged and  *)
(* the contract is validated without context.                              *)
WithoutRag(v, at, error) ==
    EnterValidate([v EXCEPT !.ragFailure = [at |-> at, error |-> error]], <<>>, FALSE)

(* 508, 606 *)
textForEmbedding(v) ==
    IF v.useGlobalClauses THEN Substring(v.content, EMBEDDING_TEXT_LENGTH) ELSE v.proposalText

(* 511-521, 609-619: safeEmbedQuery has returned. *)
ValAfterEmbedding(v, result) ==
    IF result.st # "ok" \/ result.embedding = NoEmbedding
    THEN WithoutRag(v, "embedding", result.error)
    ELSE [v EXCEPT !.embedding = result.embedding, !.pc = "searching"]

(* 426-428 *)
ValAfterClauseEmbedding(v, result) ==
    IF result.st = "ok" /\ result.embedding # NoEmbedding
    THEN [v EXCEPT !.embedding = result.embedding, !.pc = "clauseSearching"]
    ELSE [v EXCEPT !.pc = "clauseListing"]

(* The node leaves the embedder as it is. *)
ValStep(p, v) ==
    /\ procs' = [procs EXCEPT ![p] = v]
    /\ UNCHANGED <<embeddingCallTimestamps, providerCalls>>

(* A safeEmbedQuery call of the node up to its await, for the clauses      *)
(* (425) or for the context (509): the node awaits the provider, or goes   *)
(* on with a result that comes without one.                                *)
ValEmbed(p, v, text, forClauses) ==
    \E s \in {SafeEmbedStart(embeddingCache, embeddingCallTimestamps, now, text)} :
        /\ embeddingCallTimestamps' = s.stamps
        /\ providerCalls' = IF s.outcome = "call" THEN Append(providerCalls, now) ELSE providerCalls
        /\ procs' = [procs EXCEPT ![p] =
                        IF s.outcome = "call"
                        THEN [v EXCEPT !.pc = IF forClauses THEN "clauseEmbedding" ELSE "embedding"]
                        ELSE IF forClauses THEN ValAfterClauseEmbedding(v, s.result)
                        ELSE ValAfterEmbedding(v, s.result)]

(* 492-509, 591-607: the RAG context, once the global clauses are there. *)
ValContext(p, v) ==
    IF ~checkSupabaseAvailability(supabaseConfigured)
    THEN ValStep(p, WithoutRag(v, "unavailable", <<>>))
    ELSE ValEmbed(p, v, textForEmbedding(v), FALSE)

(* The global clauses are the clauses of these references; no reference is *)
(* the empty string. fetchGlobalClauses, 397-417.                          *)
fetchGlobalClauses(all) ==
    [i \in 1..(IF Len(all) < TOP_TEMPLATES THEN Len(all) ELSE TOP_TEMPLATES) |-> all[i].id]

(* fetchRelevantGlobalClauses: what it makes of the search, 432-443, and   *)
(* of the store, 451-460; extractKeyClauses is empty for an empty content  *)
(* only.                                                                   *)
RelevantClauses(data) == [i \in 1..Len(data) |-> data[i].template_id]

MinimalClauses(all) ==
    IF Len(all) = 0 \/ all[1].content = "" THEN <<>> ELSE <<all[1].id>>

(* 484-489, 583-588, then the RAG context. *)
ValWithClauses(p, v, clauses) ==
    IF clauses = <<>>
    THEN ValStep(p, RetrieveFailed(v, MsgNoGlobalTemplates))
    ELSE ValContext(p, [v EXCEPT !.clauses = clauses, !.embedding = NoEmbedding])

(* 473-483, 572-582: the content is there. Without a client getTemplates   *)
(* answers [] at once.                                                     *)
ValClauses(p, v) ==
    IF ~v.useGlobalClauses THEN ValContext(p, v)
    ELSE IF ~supabaseConfigured
    THEN ValWithClauses(p, v,
            IF LLM_PROVIDER = "ollama"
            THEN MinimalClauses(getTemplates(supabaseConfigured, [ok |-> FALSE, rows |-> <<>>]))
            ELSE fetchGlobalClauses(getTemplates(supabaseConfigured, [ok |-> FALSE, rows |-> <<>>])))
    ELSE IF LLM_PROVIDER = "ollama"
    THEN ValEmbed(p, v, Substring(v.content, SUMMARY_LENGTH), TRUE)
    ELSE ValStep(p, [v EXCEPT !.pc = "clauseListing"])

(* retrieveContractAndContext up to its first await that another request   *)
(* can run in, 466-483, 562-582.                                           *)
ValStart(p, input) ==
    /\ procs[p].kind = "idle"
    /\ \A q \in Procs : q < p => procs[q].kind # "idle"
    /\ LET v        == NewValidation(input)
           contract == getContract(memContracts, v.contractId)
       IN  IF v.contractContent # <<>>
           THEN ValClauses(p, [v EXCEPT !.content = v.contractContent])
           ELSE IF v.contractId = 0
           THEN ValStep(p, RetrieveFailed(v, MsgIdOrContent))
           ELSE IF contract = NoContract
           THEN ValStep(p, RetrieveFailed([v EXCEPT !.reads = @ + 1], MsgContractNotFound))
           ELSE ValClauses(p, [v EXCEPT !.reads = @ + 1, !.content = contract.content])
    /\ UNCHANGED <<now, ticks, embeddingCache, storeVars>>

(* fetchRelevantGlobalClauses: safeEmbedQuery resolves, 426-430. *)
ValClauseEmbedded(p, answer) ==
    /\ procs[p].kind = "validate"
    /\ procs[p].pc = "clauseEmbedding"
    /\ LET f == SafeEmbedFinish(embeddingCache, Substring(procs[p].content, SUMMARY_LENGTH), answer)
       IN  /\ embeddingCache' = f.cache
           /\ procs' = [procs EXCEPT ![p] = ValAfterClauseEmbedding(procs[p], f.result)]
    /\ UNCHANGED <<now, ticks, embeddingCallTimestamps, providerCalls, storeVars>>

(* fetchRelevantGlobalClauses: the search resolves, 430-451. *)
ValClauseSearched(p) ==
    /\ procs[p].kind = "validate"
    /\ procs[p].pc = "clauseSearching"
    /\ \E answer \in RpcAnswers(templateEmbeddings, procs[p].embedding, MATCH_THRESHOLD, CLAUSE_MATCH_COUNT) :
       LET r == searchTemplatesByEmbedding(supabaseConfigured, answer)
       IN  IF r.success /\ Len(r.data) > 0
           THEN ValWithClauses(p, procs[p], RelevantClauses(r.data))
           ELSE ValStep(p, [procs[p] EXCEPT !.embedding = NoEmbedding, !.pc = "clauseListing"])
    /\ UNCHANGED <<now, ticks, embeddingCache, storeVars>>

(* getTemplates resolves in fetchGlobalClauses (398) or in the fallback of *)
(* fetchRelevantGlobalClauses (451).                                       *)
ValClauseListed(p, answer) ==
    /\ procs[p].kind = "validate"
    /\ procs[p].pc = "clauseListing"
    /\ LET all == getTemplates(supabaseConfigured, answer)
       IN  ValWithClauses(p, procs[p],
                          IF LLM_PROVIDER = "ollama" THEN MinimalClauses(all) ELSE fetchGlobalClauses(all))
    /\ UNCHANGED <<now, ticks, embeddingCache, storeVars>>

(* safeEmbedQuery resolves, 509-527, 607-625. *)
ValEmbedded(p, answer) ==
    /\ procs[p].kind = "validate"
    /\ procs[p].pc = "embedding"
    /\ LET f == SafeEmbedFinish(embeddingCache, textForEmbedding(procs[p]), answer)
       IN  /\ embeddingCache' = f.cache
           /\ procs' = [procs EXCEPT ![p] = ValAfterEmbedding(procs[p], f.result)]
    /\ UNCHANGED <<now, ticks, embeddingCallTimestamps, providerCalls, storeVars>>

(* The search resolves: retrieveContractAndContext returns, 523-548,       *)
(* 621-646.                                                                *)
ValSearched(p) ==
    /\ procs[p].kind = "validate"
    /\ procs[p].pc = "searching"
    /\ \E answer \in RpcAnswers(templateEmbeddings, procs[p].embedding, MATCH_THRESHOLD, CONTEXT_MATCH_COUNT) :
       LET r == searchTemplatesByEmbedding(supabaseConfigured, answer)
       IN  procs' = [procs EXCEPT ![p] =
                        IF ~r.success THEN WithoutRag(procs[p], "search", r.error)
                        ELSE EnterValidate(procs[p], r.data, Len(r.data) > 0)]
    /\ UNCHANGED <<embedVars, storeVars>>

(* The completion provider's response as the words validateContract tells  *)
(* apart: the braces, a "status" member by its value, any other character  *)
(* of prose "x".                                                           *)
StatusValues == {"compliant", "issues_found", "failed", "unknown"}

(* The depth of nesting after each of the first n words. *)
RECURSIVE Depth(_, _)
Depth(text, n) ==
    IF n = 0 THEN 0
    ELSE Depth(text, n - 1) + (IF text[n] = "{" THEN 1 ELSE IF text[n] = "}" THEN -1 ELSE 0)

(* JSON.parse accepts the text as one object: members and nested objects   *)
(* between one pair of braces, and no prose.                               *)
IsObject(text) ==
    /\ Len(text) >= 2
    /\ text[1] = "{"
    /\ \A i \in 1..Len(text) : text[i] # "x"
    /\ \A i \in 1..(Len(text) - 1) : Depth(text, i) > 0
    /\ Depth(text, Len(text)) = 0

(* The value JSON.parse gives the object's own "status" member. *)
JsonParse(text) ==
    LET own == { i \in 1..Len(text) : text[i] \in StatusValues /\ Depth(text, i) = 1 }
    IN  [status |-> IF own = {} THEN "undefined" ELSE text[CHOOSE i \in own : \A j \in own : j <= i]]

(* responseText.match(/\{[\s\S]*\}/), 795: from the first opening brace to *)
(* the last closing brace after it; <<>> for no match.                     *)
MatchBraces(text) ==
    LET opens  == { i \in 1..Len(text) : text[i] = "{" }
        first  == CHOOSE i \in opens : \A j \in opens : i <= j
        closes == { i \in 1..Len(text) : text[i] = "}" /\ i > first }
    IN  IF opens = {} \/ closes = {} THEN <<>>
        ELSE SubSeq(text, first, CHOOSE i \in closes : \A j \in closes : j <= i)

ResponseTexts ==
    { <<"x">>,
      <<"}", "x", "{">>,
      <<"{", "x", "}">>,
      <<"{", "}">>,
      <<"{", "compliant", "}">>,
      <<"{", "failed", "}">>,
      <<"{", "unknown", "}">>,
      <<"x", "{", "issues_found", "}", "x">>,
      <<"{", "issues_found", "{", "compliant", "}", "}">>,
      <<"{", "compliant", "}", "x", "{", "x", "}">> }

(* ollamaClient.chat or llm.invoke resolves with a text, or throws. *)
ValidationAnswers ==
    { [kind |-> "text", text |-> t, err |-> NothingThrown] : t \in ResponseTexts }
    \cup { [kind |-> "throw", text |-> <<>>, err |-> e] :
             e \in { Thrown(TRUE, MsgFetchFailed, ""),
                     Thrown(TRUE, MsgBadGateway, "ECONNREFUSED"),
                     Thrown(TRUE, MsgBadGateway, "UND_ERR_SOCKET"),
                     Thrown(TRUE, MsgContextLength, ""),
                     Thrown(TRUE, MsgPromptTooLong, ""),
                     Thrown(TRUE, MsgBadGateway, ""),
                     Thrown(FALSE, <<>>, "") } }

(* A catch block that hands on the message of whatever it caught. *)
ValidateErrorMessageRaw(err) ==
    IF err.isError THEN err.message ELSE MsgFailedToValidate

(* The catch block of validateContract: its message, 826-836. *)
ValidateErrorMessage(err) ==
    IF Includes(err.message, StrFetchFailed) \/ err.code \in {"ECONNREFUSED", "UND_ERR_SOCKET"}
    THEN (IF LLM_PROVIDER = "ollama" THEN MsgOllamaConnection ELSE MsgGeminiConnection)
    ELSE IF Includes(err.message, StrContextLength) \/ Includes(err.message, StrTooLong)
    THEN MsgTooLarge
    ELSE IF err.isError THEN err.message
    ELSE MsgFailedToValidate

(* A catch block that hands on the judgment it had parsed. *)
ValidateFailedKeepsJudgment(v, err) ==
    [ClearValidationLocals(v) EXCEPT !.error = ValidateErrorMessage(err), !.step = "error",
                                     !.validationResult = [status |-> "failed"],
                                     !.thrown = err, !.pc = "done"]

(* A catch block that asks the completion provider again. *)
ValidateFailedRetries(v, err) ==
    [ClearValidationLocals(v) EXCEPT !.error = ValidateErrorMessage(err), !.thrown = err,
                                     !.pc = "invoking"]

(* The catch block of validateContract returns, 838-841. *)
ValidateFailed(v, err) ==
    [ClearValidationLocals(v) EXCEPT !.error = ValidateErrorMessage(err), !.step = "error",
                                     !.thrown = err, !.pc = "done"]

(* 817-821 *)
ValidateComplete(v, judgment) ==
    [ClearValidationLocals(v) EXCEPT !.validationResult = judgment, !.step = "complete",
                                     !.error = Null, !.pc = "done"]

(* A mapping that takes every judgment but a compliant one for a draft. *)
NewStatusTwoWay(status) ==
    IF status = "compliant" THEN "validated" ELSE "draft"

(* 806-807 *)
NewStatus(status) ==
    IF status = "compliant" THEN "validated"
    ELSE IF status = "issues_found" THEN "pending"
    ELSE "draft"

(* A try block that takes a response it cannot read for a failed judgment. *)
ParseResponseLenient(text) ==
    LET jsonMatch == MatchBraces(text)
    IN  IF jsonMatch = <<>> \/ ~IsObject(jsonMatch)
        THEN [ok |-> TRUE, judgment |-> [status |-> "failed"], err |-> NothingThrown]
        ELSE [ok |-> TRUE, judgment |-> JsonParse(jsonMatch), err |-> NothingThrown]

(* 794-801: what the try block makes of the response, a judgment or an     *)
(* exception.                                                              *)
ParseResponse(text) ==
    LET jsonMatch == MatchBraces(text)
    IN  IF jsonMatch = <<>>
        THEN [ok |-> FALSE, judgment |-> NoJudgment, err |-> Thrown(TRUE, MsgInvalidFormat, "")]
        ELSE IF ~IsObject(jsonMatch)
        THEN [ok |-> FALSE, judgment |-> NoJudgment, err |-> Thrown(TRUE, MsgUnexpectedToken, "")]
        ELSE [ok |-> TRUE, judgment |-> JsonParse(jsonMatch), err |-> NothingThrown]

(* A validation that writes a status whether or not it names a contract. *)
UpdatesStatusAlways(v) == TRUE

(* 805: if (state.contractId) *)
UpdatesStatus(v) == v.contractId # 0

(* A validate node that stores the status before it reads the response. *)
ValidateWritesFirst(contracts, v, r) ==
    IF UpdatesStatus(v) /\ getContract(contracts, v.contractId) # NoContract
    THEN updateContract(contracts, v.contractId, NewStatus(r.judgment.status))
    ELSE contracts

(* The contracts as validateContract leaves them, 776-809: the status is   *)
(* stored after the response has parsed, for a contract the store holds.   *)
ValidateWrites(contracts, v, r) ==
    IF r.ok /\ UpdatesStatus(v) /\ getContract(contracts, v.contractId) # NoContract
    THEN updateContract(contracts, v.contractId, NewStatus(r.judgment.status))
    ELSE contracts

(* The completion provider has resolved or thrown, 776-842; updateContract *)
(* throws for a contract it does not find and stores the status before it  *)
(* awaits the file (storage.ts 271-285).                                   *)
ValInvoked(p, answer) ==
    /\ procs[p].kind = "validate"
    /\ procs[p].pc = "invoking"
    /\ LET v == [procs[p] EXCEPT !.response = answer.text]
           r == IF answer.kind = "throw"
                THEN [ok |-> FALSE, judgment |-> NoJudgment, err |-> answer.err]
                ELSE ParseResponse(answer.text)
       IN  /\ memContracts' = ValidateWrites(memContracts, v, r)
           /\ procs' = [procs EXCEPT ![p] =
                  IF ~r.ok THEN ValidateFailed(v, r.err)
                  ELSE IF ~UpdatesStatus(v) THEN ValidateComplete(v, r.judgment)
                  ELSE IF getContract(memContracts, v.contractId) = NoContract
                  THEN ValidateFailed(v, Thrown(TRUE, MsgContractNotFound, ""))
                  ELSE [v EXCEPT !.judgment = r.judgment,
                                 !.updates = Append(@, NewStatus(r.judgment.status)),
                                 !.pc = "updating"]]
    /\ UNCHANGED <<embedVars, supabaseConfigured, templates, templateEmbeddings, LLM_PROVIDER>>

(* saveContractToFile has settled: validateContract returns, 809-821. *)
ValUpdated(p) ==
    /\ procs[p].kind = "validate"
    /\ procs[p].pc = "updating"
    /\ procs' = [procs EXCEPT ![p] = ValidateComplete(procs[p], procs[p].judgment)]
    /\ UNCHANGED <<embedVars, storeVars>>

----------------------------------------------------------------------------
(* A direct caller of searchTemplatesByEmbedding(queryEmbedding,           *)
(* matchThreshold, matchCount), supabase.ts 38-85; searchSimilarTemplates  *)
(* (langgraph-agent.ts 861-868) is one.                                    *)

(* Thresholds in hundredths: 0.0, the 0.3 of the workflows, 0.55 (the      *)
(* similarity of a neighbouring point), 0.9.                               *)
Thresholds == {0, MATCH_THRESHOLD, 55, 90}

Limits == {1, CLAUSE_MATCH_COUNT, CONTEXT_MATCH_COUNT}

NoSearchResult == [success |-> FALSE, data |-> <<>>, error |-> <<>>]

NoRpcAnswer == [kind |-> "none", data |-> <<>>, message |-> <<>>]

(* The arguments of the call, its result, and its history: rpcs, its calls *)
(* of client.rpc; answer, what the call resolved to or threw.              *)
SearchCaller(query, threshold, count) ==
    [kind |-> "search", pc |-> "rpc", query |-> query, threshold |-> threshold, count |-> count,
     result |-> NoSearchResult, rpcs |-> 0, answer |-> NoRpcAnswer]

(* A wrapper that asks the server even without a client. *)
SearchStartAlways(configured, caller) ==
    [caller EXCEPT !.rpcs = @ + 1]

(* 43-56: without a client the call returns at once; with one it awaits    *)
(* client.rpc.                                                             *)
SearchStart(configured, caller) ==
    IF ~configured
    THEN [caller EXCEPT !.result = searchTemplatesByEmbedding(configured, NoRpcAnswer),
                        !.pc = "done"]
    ELSE [caller EXCEPT !.rpcs = @ + 1]

SearchCall(p, query, threshold, count) ==
    /\ procs[p].kind = "idle"
    /\ \A q \in Procs : q < p => procs[q].kind # "idle"
    /\ procs' = [procs EXCEPT ![p] = SearchStart(supabaseConfigured, SearchCaller(query, threshold, count))]
    /\ UNCHANGED <<embedVars, storeVars>>

(* client.rpc resolves or throws, 56-84. *)
SearchReturn(p) ==
    /\ procs[p].kind = "search"
    /\ procs[p].pc = "rpc"
    /\ \E answer \in RpcAnswers(templateEmbeddings, procs[p].query, procs[p].threshold, procs[p].count) :
          procs' = [procs EXCEPT ![p] =
                       [@ EXCEPT !.result = searchTemplatesByEmbedding(supabaseConfigured, answer),
                                 !.answer = answer, !.pc = "done"]]
    /\ UNCHANGED <<embedVars, storeVars>>

----------------------------------------------------------------------------
(* extractKeyClauses, 369-394.  A content is its lines; a line is what the *)
(* pattern of 372 can tell of it and its length.  A non-blank line carries *)
(* no blanks at either end.                                                *)
(*   headline    begins with a keyword of three or more letters, numbered  *)
(*               or not (TERM, Payment, 3. LIABILITY ...; the flag i makes *)
(*               the case irrelevant)                                      *)
(*   ipHeadline  begins with IP RIGHTS: a keyword, but two letters only    *)
(*   letters     begins with three or more letters that are no keyword     *)
(*   other       any other non-empty line                                  *)
LineKinds == {"headline", "ipHeadline", "letters", "other"}

LineLengths == {10, 600, 2100}

BlankLine == [kind |-> "blank", len |-> 0]

ContentLines == {BlankLine} \cup [kind : LineKinds, len : LineLengths]

MaxLines == 4

Contents == UNION { [1..n -> ContentLines] : n \in 1..MaxLines }

CLAUSE_LENGTH == 500

FALLBACK_LENGTH == 2000

(* Group 1 of the pattern matches at the beginning of the line. *)
IsTitle(line) == line.kind \in {"headline", "ipHeadline"}

(* The first alternative of the lookahead holds before the line: a        *)
(* newline, an optional number, three letters or more.                     *)
BeginsSection(line) == line.kind \in {"headline", "letters"}

(* The second alternative of the lookahead holds at the end of line j:     *)
(* only newlines follow.                                                   *)
OnlyNewlinesAfter(content, j) ==
    \A i \in (j + 1)..Len(content) : content[i].kind = "blank"

(* The lazy group 2 begins with line k + 1 and runs to the first end of a  *)
(* line where the lookahead holds.                                         *)
BodyStops(content, j) ==
    \/ j = Len(content)
    \/ BeginsSection(content[j + 1])
    \/ OnlyNewlinesAfter(content, j)

BodyEnd(content, k) ==
    CHOOSE j \in (k + 1)..Len(content) :
        /\ BodyStops(content, j)
        /\ \A i \in (k + 1)..(j - 1) : ~BodyStops(content, i)

(* pattern.exec in the loop of 378: the next title at or after line from   *)
(* that a newline follows, its body, and on from the end of the match.     *)
RECURSIVE Matches(_, _)
Matches(content, from) ==
    LET titles == { k \in from..(Len(content) - 1) : IsTitle(content[k]) }
    IN  IF titles = {}
        THEN <<>>
        ELSE LET k == CHOOSE t \in titles : \A u \in titles : t <= u
                 j == BodyEnd(content, k)
             IN  <<[title |-> k, last |-> j]>> \o Matches(content, j + 1)

(* The length of lines a..b joined by newlines. *)
RECURSIVE TextLength(_, _, _)
TextLength(content, a, b) ==
    IF a > b THEN 0
    ELSE IF a = b THEN content[a].len
    ELSE content[a].len + 1 + TextLength(content, a + 1, b)

(* match[2].trim(): the body from its first to its last non-blank line. *)
TrimmedLength(content, a, b) ==
    LET inked == { i \in a..b : content[i].kind # "blank" }
    IN  IF inked = {} THEN 0
        ELSE TextLength(content, CHOOSE f \in inked : \A i \in inked : f <= i,
                                 CHOOSE l \in inked : \A i \in inked : l >= i)

(* 379-380: the title of a match and its content, cut at 500 characters. *)
ClauseOf(content, m) ==
    LET length == TrimmedLength(content, m.title + 1, m.last)
    IN  [title |-> m.title,
         titleLength |-> content[m.title].len,
         contentLength |-> IF length < CLAUSE_LENGTH THEN length ELSE CLAUSE_LENGTH]

(* 381-383: the clauses with a content, title \n content "..." each. *)
RECURSIVE ClausesOf(_, _)
ClausesOf(content, matches) ==
    IF matches = <<>> THEN <<>>
    ELSE LET clause == ClauseOf(content, Head(matches))
         IN  (IF clause.contentLength > 0 THEN <<clause>> ELSE <<>>)
                 \o ClausesOf(content, Tail(matches))

ClauseLength(clause) == clause.titleLength + 1 + clause.contentLength + 3

(* extractedClauses.join("\n\n") *)
RECURSIVE JoinedLength(_)
JoinedLength(clauses) ==
    IF clauses = <<>> THEN 0
    ELSE IF Len(clauses) = 1 THEN ClauseLength(clauses[1])
    ELSE ClauseLength(clauses[1]) + 2 + JoinedLength(Tail(clauses))

(* An extraction that returns the joined clauses even when there are none. *)
extractKeyClausesJoinedOnly(content) ==
    LET extractedClauses == ClausesOf(content, Matches(content, 1))
    IN  [clauses |-> extractedClauses,
         prefix |-> 0,
         length |-> JoinedLength(extractedClauses)]

(* 388-393: the first 2000 characters of the content when no clause was    *)
(* extracted, else the clauses joined.  prefix is the number of            *)
(* characters taken from the beginning of the content.                     *)
extractKeyClauses(content) ==
    LET extractedClauses == ClausesOf(content, Matches(content, 1))
        whole == TextLength(content, 1, Len(content))
    IN  IF extractedClauses = <<>>
        THEN [clauses |-> <<>>,
              prefix |-> IF whole < FALLBACK_LENGTH THEN whole ELSE FALLBACK_LENGTH,
              length |-> IF whole < FALLBACK_LENGTH THEN whole ELSE FALLBACK_LENGTH]
        ELSE [clauses |-> extractedClauses,
              prefix |-> 0,
              length |-> JoinedLength(extractedClauses)]

(* A direct call of extractKeyClauses on a content, as 408 and 458 make    *)
(* on the content of a template.                                           *)
ExtractCall(p) ==
    /\ procs[p].kind = "idle"
    /\ \E content \in Contents :
          procs' = [procs EXCEPT ![p] = [kind |-> "extract", content |-> content,
                                        result |-> extractKeyClauses(content)]]
    /\ UNCHANGED <<embedVars, storeVars>>

----------------------------------------------------------------------------
(* Date.now() advances (it never goes back). *)
Tick(d) ==
    /\ ticks < MaxTicks
    /\ ticks' = ticks + 1
    /\ now' = now + d
    /\ UNCHANGED <<embeddingCache, embeddingCallTimestamps, providerCalls, procs, storeVars>>

TickSteps == {RATE_LIMIT_WINDOW, RATE_LIMIT_WINDOW + 1}

----------------------------------------------------------------------------
(* Specifications *)

(* The rate window is empty, or holds all but one call of the budget: the  *)
(* state after that many provider calls that failed at time 0.             *)
InitWindow ==
    \E n \in {0, EMBEDDING_RATE_LIMIT - 1} :
        /\ embeddingCallTimestamps = [i \in 1..n |-> 0]
        /\ providerCalls = [i \in 1..n |-> 0]

InitCommon ==
    /\ now = 0
    /\ ticks = 0
    /\ procs = [p \in Procs |-> Idle]

InitStore ==
    /\ memContracts = <<>>
    /\ LLM_PROVIDER = "ollama"
    /\ supabaseConfigured = TRUE
    /\ templates = TemplateRows
    /\ templateEmbeddings = EmbeddingRows

NextEmbed ==
    \/ \E p \in Procs, text \in Texts : EmbedCall(p, text)
    \/ \E p \in Procs, answer \in ProviderAnswers : EmbedReturn1(p, answer)
    \/ \E p \in Procs, answer \in ProviderAnswers : EmbedReturn2(p, answer)

NextGenOf(proposals) ==
    \/ \E p \in Procs, text \in proposals : GenStart(p, text)
    \/ \E p \in Procs, answer \in ListAnswers(templates) : GenListed(p, answer)
    \/ \E p \in Procs, answer \in ProviderAnswers : GenEmbedded(p, answer)
    \/ \E p \in Procs : GenSearched(p)
    \/ \E p \in Procs, ok \in BOOLEAN : GenResolved(p, ok)
    \/ \E p \in Procs, ok \in BOOLEAN : GenIncremented(p, ok)
    \/ \E p \in Procs, answer \in LlmAnswers : GenInvoked(p, answer)
    \/ \E p \in Procs : GenSaved(p)

NextTick == \E d \in TickSteps : Tick(d)

(* Generation requests and direct callers share the embedder. *)
Init ==
    /\ InitCommon
    /\ InitStore
    /\ InitWindow
    /\ embeddingCache = <<>>

MixedProposals == {LongText}

Next == NextEmbed \/ NextGenOf(MixedProposals) \/ NextTick

Spec == Init /\ [][Next]_vars

(* Direct callers of the embedder alone. *)
NextEmbedOnly == NextEmbed \/ NextTick

SpecEmbed == Init /\ [][NextEmbedOnly]_vars

(* Generation requests alone, over every configuration of the store. *)
InitGen ==
    /\ InitCommon
    /\ InitWindow
    /\ embeddingCache = <<>>
    /\ memContracts = <<>>
    /\ LLM_PROVIDER = "ollama"
    /\ supabaseConfigured \in BOOLEAN
    /\ templates \in {<<>>, TemplateRows}
    /\ templateEmbeddings \in {EmbeddingRows, FarEmbeddingRows}

NextGen == NextGenOf(Texts)

SpecGen == InitGen /\ [][NextGen]_vars

NextValOf(ps, inputs) ==
    \/ \E p \in ps, input \in inputs : ValStart(p, input)
    \/ \E p \in ps, answer \in ProviderAnswers : ValClauseEmbedded(p, answer)
    \/ \E p \in ps : ValClauseSearched(p)
    \/ \E p \in ps, answer \in ListAnswers(templates) : ValClauseListed(p, answer)
    \/ \E p \in ps, answer \in ProviderAnswers : ValEmbedded(p, answer)
    \/ \E p \in ps : ValSearched(p)
    \/ \E p \in ps, answer \in ValidationAnswers : ValInvoked(p, answer)
    \/ \E p \in ps : ValUpdated(p)

(* A contract some earlier request created. *)
StoredContracts ==
    << [id |-> 1, content |-> ContractText, status |-> "draft", generatedFrom |-> NoId,
        ragEnabled |-> FALSE, ragTemplatesUsed |-> 0, by |-> 0] >>

(* One validation request, over every configuration of the store and      *)
(* either provider.                                                        *)
InitVal ==
    /\ InitCommon
    /\ InitWindow
    /\ embeddingCache = <<>>
    /\ memContracts = StoredContracts
    /\ LLM_PROVIDER \in {"ollama", "gemini"}
    /\ supabaseConfigured \in BOOLEAN
    /\ templates \in {<<>>, TemplateRows}
    /\ templateEmbeddings \in {EmbeddingRows, FarEmbeddingRows}

NextVal == NextValOf({1}, ValidationInputs)

SpecVal == InitVal /\ [][NextVal]_vars

(* DELETE /api/contracts/:id, routes.ts 435-456: the handler answers 404   *)
(* for a contract the store does not hold and deletes one it holds.        *)
DeleteContract(id) ==
    /\ getContract(memContracts, id) # NoContract
    /\ memContracts' = deleteContract(memContracts, id)
    /\ UNCHANGED <<embedVars, procs, supabaseConfigured, templates, templateEmbeddings, LLM_PROVIDER>>

(* Two contracts earlier requests created and validated. *)
ValidatedContracts ==
    << [id |-> 1, content |-> ContractText, status |-> "validated", generatedFrom |-> NoId,
        ragEnabled |-> FALSE, ragTemplatesUsed |-> 0, by |-> 0],
       [id |-> 2, content |-> ContractText, status |-> "pending", generatedFrom |-> NoId,
        ragEnabled |-> FALSE, ragTemplatesUsed |-> 0, by |-> 0] >>

(* One validation request while another request deletes its target. *)
InitDelete ==
    /\ InitCommon
    /\ InitWindow
    /\ embeddingCache = <<>>
    /\ memContracts = ValidatedContracts
    /\ LLM_PROVIDER \in {"ollama", "gemini"}
    /\ supabaseConfigured \in BOOLEAN
    /\ templates \in {<<>>, TemplateRows}
    /\ templateEmbeddings = EmbeddingRows

NextDelete ==
    \/ NextValOf({1}, ValidationInputs)
    \/ DeleteContract(1)

SpecDelete == InitDelete /\ [][NextDelete]_vars

(* What an awaited call of the embedding provider or of the completion     *)
(* provider ends with: it resolves with a value the node can use, resolves *)
(* with one it cannot, or throws.                                          *)
EmbedOutcomes ==
    { a \in ProviderAnswers : (a.ok /\ a.embedding = 1) \/ (~a.ok /\ a.err.status = 429) }

CompletionOutcomes ==
    { a \in ValidationAnswers :
        \/ a.kind = "text" /\ a.text \in {<<"{", "compliant", "}">>, <<"x">>}
        \/ a.kind = "throw" /\ a.err \in {Thrown(TRUE, MsgFetchFailed, ""), Thrown(TRUE, MsgContextLength, "")} }

(* The awaits of the two workflows that an invocation p may be parked on:  *)
(* a step of Returns(p) is the awaited call of a store, the embedding      *)
(* provider, the vector search or the completion provider resolving or     *)
(* throwing, and the node running on to its next await or to its return.   *)
Returns(p) ==
    \/ \E answer \in ListAnswers(templates) : GenListed(p, answer)
    \/ \E answer \in EmbedOutcomes : GenEmbedded(p, answer)
    \/ GenSearched(p)
    \/ \E ok \in BOOLEAN : GenResolved(p, ok)
    \/ \E ok \in BOOLEAN : GenIncremented(p, ok)
    \/ \E answer \in LlmAnswers : GenInvoked(p, answer)
    \/ GenSaved(p)
    \/ \E answer \in EmbedOutcomes : ValClauseEmbedded(p, answer)
    \/ ValClauseSearched(p)
    \/ \E answer \in ListAnswers(templates) : ValClauseListed(p, answer)
    \/ \E answer \in EmbedOutcomes : ValEmbedded(p, answer)
    \/ ValSearched(p)
    \/ \E answer \in CompletionOutcomes : ValInvoked(p, answer)
    \/ ValUpdated(p)

LiveProposals == {TextAa}

LiveInputs ==
    { [contractId |-> 1, contractContent |-> <<>>, proposalText |-> TextAa, useGlobalClauses |-> TRUE],
      [contractId |-> 0, contractContent |-> ContractText, proposalText |-> <<>>, useGlobalClauses |-> FALSE] }

(* Generation and validation requests over a store that holds a contract. *)
InitLive ==
    /\ InitCommon
    /\ InitWindow
    /\ embeddingCache = <<>>
    /\ memContracts = StoredContracts
    /\ LLM_PROVIDER = "ollama"
    /\ supabaseConfigured \in BOOLEAN
    /\ templates = TemplateRows
    /\ templateEmbeddings = EmbeddingRows

NextLive ==
    \/ \E p \in Procs, text \in LiveProposals : GenStart(p, text)
    \/ \E p \in Procs, input \in LiveInputs : ValStart(p, input)
    \/ \E p \in Procs : Returns(p)

(* Every call an invocation awaits resolves or throws in the end. *)
SpecLive == InitLive /\ [][NextLive]_vars /\ \A p \in Procs : WF_vars(Returns(p))

(* Generation and validation requests side by side: a validation names    *)
(* the contract a generation creates, or brings a content of its own.      *)
FlowInputs ==
    { [contractId |-> 1, contractContent |-> <<>>, proposalText |-> TextAa, useGlobalClauses |-> FALSE],
      [contractId |-> 0, contractContent |-> ContractText, proposalText |-> <<>>, useGlobalClauses |-> TRUE],
      [contractId |-> 0, contractContent |-> <<>>, proposalText |-> TextAa, useGlobalClauses |-> FALSE] }

InitFlows ==
    /\ InitCommon
    /\ InitWindow
    /\ embeddingCache = <<>>
    /\ memContracts = <<>>
    /\ LLM_PROVIDER \in {"ollama", "gemini"}
    /\ supabaseConfigured \in BOOLEAN
    /\ templates \in {<<>>, TemplateRows}
    /\ templateEmbeddings = EmbeddingRows

NextFlows == NextGenOf(MixedProposals) \/ NextValOf(Procs, FlowInputs)

SpecFlows == InitFlows /\ [][NextFlows]_vars

(* Direct callers of the similarity search, with and without a client,     *)
(* over three states of the index.                                         *)
NextSearch ==
    \/ \E p \in Procs, query \in Vectors, threshold \in Thresholds, count \in Limits :
          SearchCall(p, query, threshold, count)
    \/ \E p \in Procs : SearchReturn(p)

InitSearch ==
    /\ InitCommon
    /\ embeddingCallTimestamps = <<>>
    /\ providerCalls = <<>>
    /\ embeddingCache = <<>>
    /\ memContracts = <<>>
    /\ LLM_PROVIDER = "ollama"
    /\ supabaseConfigured \in BOOLEAN
    /\ templates = TemplateRows
    /\ templateEmbeddings \in {EmbeddingRows, FarEmbeddingRows, {}}

SpecSearch == InitSearch /\ [][NextSearch]_vars

(* extractKeyClauses on every content of up to MaxLines lines. *)
NextClauses ==
    ExtractCall(1)

InitClauses ==
    /\ InitCommon
    /\ embeddingCallTimestamps = <<>>
    /\ providerCalls = <<>>
    /\ embeddingCache = <<>>
    /\ InitStore

SpecClauses == InitClauses /\ [][NextClauses]_vars

(* Direct callers on a cache one entry short of its capacity: the entries  *)
(* of CACHE_MAX_SIZE - 1 earlier one-character texts.                      *)
FullCache == [i \in 1..(CACHE_MAX_SIZE - 1) |-> [key |-> hashString(<<1000 + i>>), embedding |-> 1]]

InitCache ==
    /\ InitCommon
    /\ InitStore
    /\ embeddingCallTimestamps = <<>>
    /\ providerCalls = <<>>
    /\ embeddingCache = FullCache

SpecCache == InitCache /\ [][NextEmbed]_vars

----------------------------------------------------------------------------
(* Properties of the embedder *)

(* The provider calls started in the window of RATE_LIMIT_WINDOW ms that   *)
(* ends at t.                                                              *)
CallsInWindowEndingAt(t) ==
    Cardinality({ j \in 1..Len(providerCalls) :
                    providerCalls[j] >= t - RATE_LIMIT_WINDOW /\ providerCalls[j] <= t })

(* C1: however generation requests and direct callers interleave, the      *)
(* timestamps list never holds more than EMBEDDING_RATE_LIMIT entries, and *)
(* no window of RATE_LIMIT_WINDOW ms holds the start of more than          *)
(* EMBEDDING_RATE_LIMIT provider calls.                                    *)
C1_RateBudget ==
    /\ Len(embeddingCallTimestamps) <= EMBEDDING_RATE_LIMIT
    /\ \A i \in 1..Len(providerCalls) :
          CallsInWindowEndingAt(providerCalls[i]) <= EMBEDDING_RATE_LIMIT

(* The budget is spent, a generation request holds one of its calls and a  *)
(* direct caller has been turned away.                                     *)
C1_Witness ==
    /\ Len(embeddingCallTimestamps) = EMBEDDING_RATE_LIMIT
    /\ CallsInWindowEndingAt(now) = EMBEDDING_RATE_LIMIT
    /\ \E p, q \in Procs :
          /\ procs[p].kind = "generate" /\ procs[p].pc = "embedding"
          /\ procs[q].kind = "embed" /\ procs[q].r1 = Failure(RateLimitReached)

(* What a caller finds when it calls: the calls of the trailing window,    *)
(* whether the text's key is cached, whether the text was requested.       *)
WindowCount(stamps, t) == Cardinality({ i \in 1..Len(stamps) : stamps[i] >= t - RATE_LIMIT_WINDOW })

KeyCached(cache, text) == hashString(text) \in CacheKeys(cache)

Requested(text) == \E q \in Procs : procs[q].kind = "embed" /\ procs[q].text = text

(* The step in which p makes its first safeEmbedQuery call. *)
FirstCallBy(p) == procs[p].kind = "idle" /\ procs'[p].kind = "embed"

BudgetSpent == WindowCount(embeddingCallTimestamps, now) >= EMBEDDING_RATE_LIMIT

Rejected(p) ==
    /\ procs'[p].r1 = Failure(RateLimitReached)
    /\ procs'[p].calls = 0
    /\ providerCalls' = providerCalls

CachedVector(cache, text) ==
    CHOOSE v \in Vectors : \E i \in 1..Len(cache) : cache[i] = [key |-> hashString(text), embedding |-> v]

(* C3: a call for a text whose key is cached returns success with the      *)
(* cached vector, calls no provider and leaves the rate window and the     *)
(* cache as they were, whatever the window holds.                          *)
C3_CacheHit ==
    [][\A p \in Procs :
          FirstCallBy(p) /\ KeyCached(embeddingCache, procs'[p].text) =>
              /\ procs'[p].r1 = Success(CachedVector(embeddingCache, procs'[p].text))
              /\ procs'[p].calls = 0
              /\ UNCHANGED <<embeddingCallTimestamps, embeddingCache, providerCalls>>]_vars

(* A hit served while the budget is spent. *)
C3_Witness ==
    \E p \in Procs :
        /\ procs[p].kind = "embed"
        /\ procs[p].pc = "done"
        /\ procs[p].r1.st = "ok"
        /\ procs[p].calls = 0
        /\ WindowCount(embeddingCallTimestamps, now) = EMBEDDING_RATE_LIMIT

TwoCallsDone(p) == procs[p].kind = "embed" /\ procs[p].pc = "done"

ExpectedReason(err) ==
    CASE err.status = 429 -> QuotaExceeded
      [] err.status # 429 /\ err.message \in {MsgDailyQuota, MsgTooMany} -> QuotaExceeded
      [] err.status # 429 /\ err.message = <<>> -> UnknownError
      [] OTHER -> err.message

(* C5: a call the provider answers with an error returns, and returns a    *)
(* failure: 'Quota exceeded' for status 429 or a message containing        *)
(* 'quota' or 'Too Many Requests', else the error's message, or 'Unknown   *)
(* error' when it has none.                                                *)
C5_ErrorsAreResults ==
    \A p \in Procs :
        procs[p].kind = "embed" =>
            /\ procs[p].pc # "await1" => procs[p].r1.st \in {"ok", "fail"}
            /\ procs[p].pc = "done" => procs[p].r2.st \in {"ok", "fail"}
            /\ procs[p].a1 # NoAnswer /\ ~procs[p].a1.ok =>
                   procs[p].r1 = Failure(ExpectedReason(procs[p].a1.err))

C5_Witness ==
    \E p, q \in Procs :
        /\ procs[p].kind = "embed" /\ procs[q].kind = "embed"
        /\ procs[p].a1.err.status = 429 /\ procs[p].r1 = Failure(QuotaExceeded)
        /\ procs[q].a1.err.message = MsgCapitalQuota /\ procs[q].r1 = Failure(MsgCapitalQuota)

KeysOf(cache) == [i \in 1..Len(cache) |-> cache[i].key]

(* C6: the cache never holds more than CACHE_MAX_SIZE entries; an insert   *)
(* that finds it at capacity removes the EVICT_BATCH oldest entries, keeps *)
(* the others in their order and stores the new entry.                     *)
C6_CacheBounded ==
    [][/\ Len(embeddingCache') <= CACHE_MAX_SIZE
       /\ Len(embeddingCache) >= CACHE_MAX_SIZE /\ embeddingCache' # embeddingCache =>
             LET kept == SubSeq(KeysOf(embeddingCache), EVICT_BATCH + 1, Len(embeddingCache))
             IN  /\ SubSeq(KeysOf(embeddingCache'), 1, Len(kept)) = kept
                 /\ Len(embeddingCache') \in {Len(kept), Len(kept) + 1}
                 /\ \E p \in Procs :
                       /\ procs'[p] # procs[p]
                       /\ getCachedEmbedding(embeddingCache', procs[p].text) \in Vectors]_vars

(* The cache after an insert that evicted. *)
C6_Witness == Len(embeddingCache) = CACHE_MAX_SIZE - EVICT_BATCH + 1

----------------------------------------------------------------------------
(* Properties of the retrieve phase of generation *)

Generations == { p \in Procs : procs[p].kind = "generate" }

(* C7: a generation request whose listing of the store has no template     *)
(* ends in the error phase with the 'No templates available' message; it   *)
(* never calls the completion provider and creates no contract.            *)
C7_NoTemplates ==
    \A p \in Generations :
        procs[p].listed = 0 =>
            /\ procs[p].pc = "done"
            /\ procs[p].step = "error"
            /\ procs[p].error = MsgNoTemplates
            /\ procs[p].completions = 0
            /\ procs[p].contractId = 0 /\ procs[p].generatedContent = <<>>
            /\ \A i \in 1..Len(memContracts) : memContracts[i].by # p

(* The table is empty and a request has ended in the error phase. *)
C7_Witness ==
    \E p \in Generations :
        /\ supabaseConfigured /\ templates = <<>>
        /\ procs[p].listed = 0
        /\ procs[p].pc = "done" /\ procs[p].step = "error"

(* retrieveTemplates has returned: the generate node is about to run, or   *)
(* the graph has ended without running it.                                 *)
RetrieveReturned(g) == g.pc = "invoking" \/ (g.pc = "done" /\ g.completions = 0)

(* The four cases in which no candidate is retrieved. *)
NoRetrieval(g) ==
    \/ ~checkSupabaseAvailability(supabaseConfigured)
    \/ g.embeddingResult.st = "fail"
    \/ g.searchResult.st = "fail"
    \/ g.searchResult.st = "ok" /\ g.searchResult.data = <<>>

(* The first template in store order: of the listing the request got, or   *)
(* of any listing of the table when it got none.                           *)
FirstInStore(g) ==
    IF g.listed > 0 THEN {g.allTemplates[1]}
    ELSE { ToTemplate(l[1]) : l \in Listings(templates) }

FellBack(g, candidates) ==
    /\ g.pc = "invoking"
    /\ g.step = "generate"
    /\ g.error = Null
    /\ g.useRag = FALSE
    /\ g.relevantTemplates = candidates
    /\ \E f \in FirstInStore(g) : g.templateId = f.id /\ g.templateContent = f.content

(* C8, as the specification states it: with a template in the store, when  *)
(* the vector index is unavailable, the embedding fails, the search fails  *)
(* or it finds no candidate, retrieve selects the first template in store  *)
(* order, with useRag false, no candidates and no error, and goes on to    *)
(* generate.                                                               *)
C8_AsStated ==
    \A p \in Generations :
        templates # <<>> /\ RetrieveReturned(procs[p]) /\ NoRetrieval(procs[p])
            => FellBack(procs[p], <<>>)

(* What holds of C8: the same, of the requests that the store has listed   *)
(* a template to.                                                          *)
C8_WhenListed ==
    \A p \in Generations :
        procs[p].listed > 0 /\ RetrieveReturned(procs[p]) /\ NoRetrieval(procs[p])
            => FellBack(procs[p], <<>>)

(* The search found candidates and getTemplate resolved the one taken. *)
RagCase(g) ==
    /\ g.pc = "invoking"
    /\ g.searchResult.st = "ok" /\ Len(g.searchResult.data) >= 1
    /\ g.template # NoTemplate

TopCandidateChosen(g) ==
    /\ g.step = "generate"
    /\ g.useRag = TRUE
    /\ g.templateId = g.searchResult.data[1].template_id
    /\ \E i \in 1..Len(templates) :
          templates[i].id = g.templateId /\ templates[i].content = g.templateContent

StaleCase(g) ==
    /\ g.pc = "invoking"
    /\ g.searchResult.st = "ok" /\ Len(g.searchResult.data) >= 1
    /\ g.template = NoTemplate

(* C10: when the top candidate cannot be resolved in the store, retrieve   *)
(* selects the first template in store order with useRag false, returns    *)
(* all the candidates of the search and goes on to generate.               *)
C10_StaleCandidate ==
    \A p \in Generations :
        StaleCase(procs[p]) => FellBack(procs[p], procs[p].searchResult.data)

(* The top candidate is the embedding of a template the store has not. *)
C10_Witness ==
    \E p \in Generations :
        /\ StaleCase(procs[p])
        /\ ~(\E i \in 1..Len(templates) : templates[i].id = procs[p].searchResult.data[1].template_id)
        /\ Len(procs[p].relevantTemplates) = 2

----------------------------------------------------------------------------
(* Properties of the generate phase *)

ContractsBy(p) == { i \in 1..Len(memContracts) : memContracts[i].by = p }

(* C11: a generation request whose completion call and createContract call *)
(* succeeded has created exactly one contract, with status 'draft',        *)
(* generatedFrom the chosen template id, ragEnabled the state's useRag and *)
(* ragTemplatesUsed the number of candidates; its state has step           *)
(* 'complete', the id of that contract and error null.                     *)
C11_ContractCreated ==
    \A p \in Generations :
        procs[p].pc = "done" /\ procs[p].step = "complete" =>
            /\ Cardinality(ContractsBy(p)) = 1
            /\ \A i \in ContractsBy(p) :
                  /\ memContracts[i].status = "draft"
                  /\ memContracts[i].generatedFrom = procs[p].templateId
                  /\ memContracts[i].ragEnabled = procs[p].useRag
                  /\ memContracts[i].ragTemplatesUsed = Len(procs[p].relevantTemplates)
                  /\ memContracts[i].content = procs[p].generatedContent
                  /\ procs[p].contractId = memContracts[i].id
            /\ procs[p].contractId # 0
            /\ procs[p].error = Null

(* Two requests have completed, one of them with two candidates. *)
C11_Witness ==
    /\ Len(memContracts) = 2
    /\ \A p \in Procs : procs[p].kind = "generate" /\ procs[p].pc = "done" /\ procs[p].step = "complete"
    /\ \E p \in Procs : procs[p].useRag /\ Len(procs[p].relevantTemplates) = 2

Invocations == { p \in Procs : procs[p].kind \in {"generate", "validate"} }

SecondPhase(kind) == IF kind = "generate" THEN "generate" ELSE "validate"

(* The edges of the two graphs, 344-353 and 845-854. *)
PhaseEdges(kind) ==
    { <<"retrieve", SecondPhase(kind)>>, <<"retrieve", "error">>,
      <<SecondPhase(kind), "complete">>, <<SecondPhase(kind), "error">> }

(* C13: in both workflows the phases run in the order retrieve, then       *)
(* generate or validate, then done. The second phase starts (the           *)
(* invocation calls the completion provider) only in the step in which     *)
(* retrieve returns, and only when retrieve returned no error; an          *)
(* invocation in error or complete never moves again.                      *)
C13_PhaseOrder ==
    [][\A p \in Procs :
          LET a == procs[p]
              b == procs'[p]
          IN  /\ a.kind = "idle" /\ b.kind # "idle" =>
                    b.step \in {"retrieve", SecondPhase(b.kind), "error"}
              /\ a.kind # "idle" =>
                    /\ b.kind = a.kind
                    /\ a.step # b.step => <<a.step, b.step>> \in PhaseEdges(a.kind)
                    /\ a.step \in {"error", "complete"} => b = a
                    /\ b.completions # a.completions =>
                          /\ a.step = "retrieve"
                          /\ b.completions = 1
              /\ b.kind # "idle" =>
                    /\ b.step = "retrieve" => b.completions = 0
                    /\ b.step = SecondPhase(b.kind) => b.completions = 1 /\ b.error = Null
                    /\ b.step = "complete" => b.completions = 1]_vars

(* Error is reached from either phase: a validation ended in error in its *)
(* second phase, a generation in its retrieve phase.                       *)
C13_Witness ==
    \E p, q \in Procs :
        /\ procs[p].kind = "validate" /\ procs[p].step = "error" /\ procs[p].completions = 1
        /\ procs[q].kind = "generate" /\ procs[q].step = "error" /\ procs[q].completions = 0


Terminal(p) == procs[p].kind \in {"generate", "validate"} /\ procs[p].pc = "done"

(* A complete result: the contract created and its text, or a judgment. *)
CompleteResult(p) ==
    /\ procs[p].step = "complete"
    /\ procs[p].error = Null
    /\ IF procs[p].kind = "generate"
       THEN /\ procs[p].contractId # 0
            /\ getContract(memContracts, procs[p].contractId) # NoContract
            /\ getContract(memContracts, procs[p].contractId).content = procs[p].generatedContent
       ELSE procs[p].validationResult # NoJudgment

ErrorResult(p) ==
    /\ procs[p].step = "error"
    /\ procs[p].error # Null
    /\ IF procs[p].kind = "generate"
       THEN procs[p].generatedContent = <<>> /\ procs[p].contractId = 0
       ELSE procs[p].validationResult = NoJudgment

(* C14: every terminal state of either workflow is a complete result, or   *)
(* an error that carries no produced content, no contract id and no        *)
(* judgment; and an invocation is in step complete or error only when it   *)
(* has ended.                                                              *)
C14_TerminalStates ==
    \A p \in Procs :
        /\ Terminal(p) => CompleteResult(p) \/ ErrorResult(p)
        /\ procs[p].kind \in {"generate", "validate"} /\ procs[p].step \in {"complete", "error"} => Terminal(p)

(* A validation failed after the provider had answered, beside a complete  *)
(* generation.                                                             *)
C14_Witness ==
    \E p, q \in Procs :
        /\ Terminal(p) /\ procs[p].kind = "validate" /\ ErrorResult(p) /\ procs[p].response # <<>>
        /\ Terminal(q) /\ procs[q].kind = "generate" /\ CompleteResult(q)


Validations == { p \in Procs : procs[p].kind = "validate" }

Resolves(id) == \E i \in 1..Len(memContracts) : memContracts[i].id = id

StoredContent(id) == memContracts[CHOOSE i \in 1..Len(memContracts) : memContracts[i].id = id].content

(* The invocation has left retrieve with the target's content. *)
Retrieved(p) == procs[p].step \in {"validate", "complete"} \/ procs[p].completions = 1

(* C15: a validation that is handed the content never reads the store for  *)
(* the target and validates that content; one that is handed an id alone   *)
(* reads the store once, ends in the error 'Contract not found' when the   *)
(* id does not resolve and validates the stored content when it does; one  *)
(* that is handed neither ends in an error; and in both error cases the    *)
(* completion provider is never called.                                    *)
C15_TargetResolution ==
    \A p \in Validations :
        LET v == procs[p]
        IN  /\ v.input.contractContent # <<>> =>
                  /\ v.reads = 0
                  /\ Retrieved(p) => v.contractContent = v.input.contractContent
            /\ v.input.contractContent = <<>> /\ v.input.contractId # 0 =>
                  /\ v.reads = 1
                  /\ ~Resolves(v.input.contractId) =>
                        v.step = "error" /\ v.error = MsgContractNotFound /\ v.completions = 0
                  /\ Resolves(v.input.contractId) /\ Retrieved(p) =>
                        v.contractContent = StoredContent(v.input.contractId)
            /\ v.input.contractContent = <<>> /\ v.input.contractId = 0 =>
                  /\ v.reads = 0
                  /\ v.step = "error" /\ v.error = MsgIdOrContent /\ v.completions = 0

(* An id that does not resolve has ended a validation. *)
C15_Witness ==
    \E p \in Validations :
        /\ procs[p].input.contractContent = <<>>
        /\ procs[p].input.contractId # 0
        /\ ~Resolves(procs[p].input.contractId)
        /\ procs[p].error = MsgContractNotFound


(* C16: as stated, a validation that is handed no requirements text at all *)
(* and reaches its validate phase compares the target against the global   *)
(* clauses. The code enters that mode on the flag useGlobalClauses alone,  *)
(* which no text or absence of text sets: without the flag the prompt      *)
(* compares the target against the words "No proposal provided".           *)
C16_AsStated ==
    \A p \in Validations :
        procs[p].input.proposalText = <<>> /\ procs[p].completions = 1 => procs[p].mode = "global"


(* C17: as stated, a validation in global-clause mode over a store with no *)
(* templates ends in error before its validate phase, with either provider *)
(* and whatever the vector index returns. With ollama the clauses are      *)
(* taken from the rows the index returns, and the store is not asked.      *)
C17_AsStated ==
    \A p \in Validations :
        procs[p].input.useGlobalClauses /\ templates = <<>> => procs[p].completions = 0


ContentResolved(p) ==
    procs[p].input.contractContent # <<>> \/ Resolves(procs[p].input.contractId)

(* C18 as stated: once the target content is resolved an unavailable       *)
(* vector index never ends the invocation in retrieve. In global-clause    *)
(* mode it does: without the Supabase client getTemplates answers [], no   *)
(* clauses are found and retrieve returns the error of 484-489.            *)
C18_AsStated ==
    \A p \in Validations :
        ContentResolved(p) /\ ~supabaseConfigured => procs[p].completions = 1

(* C18: when the context retrieval of a validation fails (the vector index *)
(* is unavailable, the embedding fails or is refused by the rate limiter,  *)
(* or the search fails), retrieve returns in that step with useRag false,  *)
(* an empty context and no error, and the validate phase starts; and an    *)
(* invocation that ends in retrieve with an error has met no such failure. *)
(* Outside global-clause mode an unavailable index is such a failure       *)
(* whenever the content is resolved.                                       *)
C18_ContextDegrades ==
    [][\A p \in Procs :
          procs'[p].kind = "validate" =>
              LET a == procs[p]
                  b == procs'[p]
                  fresh == a.kind = "idle" \/ a.ragFailure = NoFailure
              IN  /\ fresh /\ b.ragFailure # NoFailure =>
                        /\ b.step = "validate" /\ b.error = Null /\ b.completions = 1
                        /\ b.useRag = FALSE /\ b.relevantContext = <<>>
                        /\ b.contractContent # <<>>
                  /\ b.step = "error" /\ b.completions = 0 => b.ragFailure = NoFailure
                  /\ b.ragFailure.at = "unavailable" => ~supabaseConfigured
                  /\ /\ a.kind = "idle"
                     /\ ~supabaseConfigured
                     /\ ~b.input.useGlobalClauses
                     /\ b.input.contractContent # <<>> \/ Resolves(b.input.contractId)
                     => b.ragFailure.at = "unavailable"]_vars

(* The rate limiter refused the embedding of a validation, which went on   *)
(* to its validate phase.                                                  *)
C18_Witness ==
    \E p \in Validations :
        /\ procs[p].ragFailure = [at |-> "embedding", error |-> RateLimitReached]
        /\ procs[p].step = "validate"


(* The validations whose completion provider has answered with a text. *)
Answered == { p \in Validations : procs[p].response # <<>> }

NothingWritten(p) == procs[p].updates = <<>> /\ memContracts = StoredContracts

(* C19: when the response of the completion provider holds no opening      *)
(* brace with a closing brace after it, the validation ends in error with  *)
(* 'Invalid validation response format'; when the text between its braces  *)
(* does not parse as JSON, it ends in error with the parser's message; in  *)
(* both cases it carries no judgment and has updated no contract status.   *)
C19_MalformedResponse ==
    \A p \in Answered :
        LET v == procs[p]
        IN  /\ MatchBraces(v.response) = <<>> =>
                  /\ v.step = "error" /\ v.error = MsgInvalidFormat
                  /\ v.validationResult = NoJudgment /\ NothingWritten(p)
            /\ MatchBraces(v.response) # <<>> /\ ~IsObject(MatchBraces(v.response)) =>
                  /\ v.step = "error" /\ v.error = MsgUnexpectedToken
                  /\ v.validationResult = NoJudgment /\ NothingWritten(p)

(* A validation of a stored contract got prose between braces. *)
C19_Witness ==
    \E p \in Answered :
        /\ procs[p].response = <<"{", "x", "}">>
        /\ procs[p].contractId = 1
        /\ procs[p].step = "error"


(* The well-formed JSON objects of a text, by where they begin and end. *)
ObjectsIn(text) ==
    { s \in (1..Len(text)) \X (1..Len(text)) : s[1] < s[2] /\ IsObject(SubSeq(text, s[1], s[2])) }

FirstObjectIn(text) ==
    LET s == CHOOSE s \in ObjectsIn(text) : \A t \in ObjectsIn(text) : s[1] <= t[1]
    IN  SubSeq(text, s[1], s[2])

(* C20 as stated: whenever the response holds a well-formed JSON object,   *)
(* whatever prose surrounds it, the validation completes with the judgment *)
(* parsed from the first such object (unless the contract it names is not  *)
(* in the store). The code parses from the first opening brace to the last *)
(* closing brace of the response, so prose with a brace of its own around  *)
(* the object makes JSON.parse throw.                                      *)
C20_AsStated ==
    \A p \in Answered :
        /\ ObjectsIn(procs[p].response) # {}
        /\ procs[p].contractId = 0 \/ Resolves(procs[p].contractId)
        /\ procs[p].pc = "done"
        => /\ procs[p].step = "complete"
           /\ procs[p].validationResult = JsonParse(FirstObjectIn(procs[p].response))

(* What does hold: a well-formed object that begins at the first opening   *)
(* brace of the response and ends at its last closing brace is parsed into *)
(* the judgment, whatever prose without braces surrounds it.               *)
C20_WhenBracesAreTheObjects ==
    \A p \in Answered :
        /\ IsObject(MatchBraces(procs[p].response))
        /\ procs[p].contractId = 0 \/ Resolves(procs[p].contractId)
        /\ procs[p].pc = "done"
        => /\ procs[p].step = "complete"
           /\ procs[p].validationResult = JsonParse(MatchBraces(procs[p].response))


(* The status the judgment calls for. *)
StatusFor(judged) ==
    CASE judged = "compliant" -> "validated"
      [] judged = "issues_found" -> "pending"
      [] judged = "failed" -> "draft"
      [] OTHER -> "any"

StatusOf(contracts, id) == contracts[CHOOSE i \in 1..Len(contracts) : contracts[i].id = id].status

C22_AdHocWritesNothing ==
    [][\A p \in Procs :
          procs'[p].kind = "validate" /\ procs'[p].contractId = 0 =>
              /\ procs'[p] # procs[p] => memContracts' = memContracts
              /\ procs'[p].updates = <<>>
              /\ procs'[p].pc = "done" /\ IsObject(MatchBraces(procs'[p].response)) =>
                    /\ procs'[p].step = "complete"
                    /\ procs'[p].validationResult = JsonParse(MatchBraces(procs'[p].response))]_vars

(* A validation of supplied content has completed with a judgment of       *)
(* compliant, and the stored contract is still a draft.                    *)
C22_Witness ==
    \E p \in Validations :
        /\ procs[p].contractId = 0
        /\ procs[p].step = "complete"
        /\ procs[p].validationResult.status = "compliant"
        /\ StatusOf(memContracts, 1) = "draft"


(* The validations whose validate phase raised an exception. *)
Failed == { p \in Validations : procs[p].thrown # NothingThrown }

ConnectionError(err) ==
    Includes(err.message, StrFetchFailed) \/ err.code \in {"ECONNREFUSED", "UND_ERR_SOCKET"}

ContextLengthError(err) ==
    Includes(err.message, StrContextLength) \/ Includes(err.message, StrTooLong)

(* C23: every exception raised in the validate phase ends the validation   *)
(* in the error phase, with no judgment and a message by its class: the    *)
(* hint that names the configured provider for a failed connection, the    *)
(* 'too large' message for an exceeded context length, the exception's own *)
(* message for any other Error (and 'Failed to validate contract' for a    *)
(* thrown value that is not an Error); a validation in its validate phase  *)
(* always ends, complete or in error.                                      *)
C23_ExceptionsClassified ==
    /\ \A p \in Failed :
          LET v == procs[p]
          IN  /\ v.step = "error" /\ v.pc = "done" /\ v.completions = 1
              /\ v.validationResult = NoJudgment
              /\ ConnectionError(v.thrown) =>
                    v.error = (IF LLM_PROVIDER = "ollama" THEN MsgOllamaConnection ELSE MsgGeminiConnection)
              /\ ~ConnectionError(v.thrown) /\ ContextLengthError(v.thrown) => v.error = MsgTooLarge
              /\ ~ConnectionError(v.thrown) /\ ~ContextLengthError(v.thrown) =>
                    v.error = (IF v.thrown.isError THEN v.thrown.message ELSE MsgFailedToValidate)
    /\ \A p \in Validations :
          procs[p].step = "error" /\ procs[p].completions = 1 => p \in Failed

(* With gemini configured, the provider refused the connection. *)
C23_Witness ==
    \E p \in Failed :
        /\ procs[p].thrown.code = "ECONNREFUSED"
        /\ LLM_PROVIDER = "gemini"
        /\ procs[p].error = MsgGeminiConnection


(* C24 as stated: the judgment of a validation that completes has a status *)
(* of compliant, issues_found or failed. The code takes whatever object    *)
(* JSON.parse returns for the judgment: a status of another value, or no   *)
(* status at all, completes the validation as well.                        *)
C24_AsStated ==
    \A p \in Validations :
        procs[p].step = "complete" =>
            procs[p].validationResult.status \in {"compliant", "issues_found", "failed"}


Searches == { p \in Procs : procs[p].kind = "search" }

Returned == { p \in Searches : procs[p].pc = "done" }

(* C25: without a Supabase client searchTemplatesByEmbedding returns at    *)
(* once with success false, an empty data list and the reason 'Supabase    *)
(* client not initialized...', and it has made no remote call.             *)
C25_NoClient ==
    \A p \in Searches :
        ~supabaseConfigured =>
            /\ procs[p].pc = "done"
            /\ procs[p].rpcs = 0
            /\ procs[p].result.success = FALSE
            /\ procs[p].result.data = <<>>
            /\ procs[p].result.error = MsgNotInitialized
            /\ procs[p].result.error # <<>>

(* A search was called without a client. *)
C25_Witness ==
    /\ ~supabaseConfigured
    /\ \E p \in Returned : procs[p].result.success = FALSE


(* The searches that reached the server. *)
Asked == { p \in Returned : procs[p].rpcs = 1 }

(* C26: searchTemplatesByEmbedding always returns a result: for an error   *)
(* of the server success is false, data is the empty list and the error    *)
(* holds the server's message; for an exception of the transport success   *)
(* is false, data is the empty list and the error is the exception's       *)
(* message; for rows, no rows or null data success is true, there is no    *)
(* error, and data is the rows or the empty list, never null.              *)
C26_NoMatchIsNotFailure ==
    \A p \in Asked :
        LET r == procs[p].result
            answer == procs[p].answer
        IN  /\ r.data # NullData
            /\ answer.kind \in {"data", "null", "error", "throw"}
            /\ answer.kind = "error" =>
                  r.success = FALSE /\ r.data = <<>> /\ r.error # <<>> /\ Includes(r.error, answer.message)
            /\ answer.kind = "throw" =>
                  r.success = FALSE /\ r.data = <<>> /\ r.error = answer.message /\ r.error # <<>>
            /\ answer.kind = "null" => r.success = TRUE /\ r.data = <<>> /\ r.error = <<>>
            /\ answer.kind = "data" => r.success = TRUE /\ r.data = answer.data /\ r.error = <<>>

(* One search found no rows and another failed: both have an empty data    *)
(* list, and success tells them apart.                                     *)
C26_Witness ==
    \E p, q \in Asked :
        /\ procs[p].answer.kind = "null" /\ procs[p].result.success
        /\ procs[q].answer.kind = "error" /\ ~procs[q].result.success
        /\ procs[p].result.data = procs[q].result.data



(* C27: every item a successful search returns is strictly more similar    *)
(* to the query than the threshold the caller passed; a row exactly as     *)
(* similar as the threshold is left out.                                   *)
C27_AboveThreshold ==
    \A p \in Returned :
        procs[p].result.success =>
            \A i \in 1..Len(procs[p].result.data) :
                procs[p].result.data[i].similarity > procs[p].threshold

(* A search at threshold 55 over an index holding a row exactly 55         *)
(* similar returned the one closer row and not that one.                   *)
C27_Witness ==
    \E p \in Returned :
        /\ procs[p].result.success
        /\ procs[p].threshold = 55
        /\ \E r \in templateEmbeddings : Similarity(r.embedding, procs[p].query) = 55
        /\ Len(procs[p].result.data) = 1
        /\ procs[p].result.data[1].similarity = 100


(* C28: the items of a successful search come in non-increasing order of   *)
(* similarity, so the first item, the one generation selects, is as        *)
(* similar as any item returned.                                           *)
C28_MostSimilarFirst ==
    \A p \in Returned :
        procs[p].result.success =>
            LET data == procs[p].result.data
            IN  /\ \A i \in 1..(Len(data) - 1) : data[i].similarity >= data[i + 1].similarity
                /\ \A i \in 1..Len(data) : data[1].similarity >= data[i].similarity

(* A search returned rows of different similarity, the closest one first.  *)
C28_Witness ==
    \E p \in Returned :
        /\ procs[p].result.success
        /\ Len(procs[p].result.data) >= 2
        /\ procs[p].result.data[1].similarity > procs[p].result.data[2].similarity


C30_AsStated ==
    \A p \in Procs :
        procs[p].kind = "extract" => procs[p].result.length <= FALLBACK_LENGTH

(* The output without clauses does keep to 2000 characters, and each       *)
(* clause content to 500.                                                  *)
C30_OnlyThePartsAreCut ==
    \A p \in Procs :
        procs[p].kind = "extract" =>
            /\ procs[p].result.clauses = <<>> => procs[p].result.length <= FALLBACK_LENGTH
            /\ \A i \in 1..Len(procs[p].result.clauses) :
                   procs[p].result.clauses[i].contentLength <= CLAUSE_LENGTH

(* Two clauses of a content of four lines make more than 2000 characters. *)
C30_TwoClausesTooLong ==
    \E p \in Procs :
        /\ procs[p].kind = "extract"
        /\ Len(procs[p].result.clauses) = 2
        /\ procs[p].result.length > FALLBACK_LENGTH


(* C31: on a content with no recognized headline extractKeyClauses returns *)
(* exactly the first 2000 characters of the content, or the whole content  *)
(* when it is shorter; the result is not empty when the content is not.    *)
C31_NoHeadlineGivesPrefix ==
    \A p \in Procs :
        (/\ procs[p].kind = "extract"
         /\ \A i \in 1..Len(procs[p].content) : ~IsTitle(procs[p].content[i])) =>
            LET whole == TextLength(procs[p].content, 1, Len(procs[p].content))
                result == procs[p].result
            IN  /\ result.clauses = <<>>
                /\ result.prefix = (IF whole < FALLBACK_LENGTH THEN whole ELSE FALLBACK_LENGTH)
                /\ result.length = result.prefix
                /\ whole > 0 => result.length > 0

(* A content of more than 2000 characters without a headline gave its      *)
(* first 2000 characters.                                                  *)
C31_Witness ==
    \E p \in Procs :
        /\ procs[p].kind = "extract"
        /\ \A i \in 1..Len(procs[p].content) : ~IsTitle(procs[p].content[i])
        /\ \E i \in 1..Len(procs[p].content) : procs[p].content[i].kind = "letters"
        /\ TextLength(procs[p].content, 1, Len(procs[p].content)) > FALLBACK_LENGTH
        /\ procs[p].result.prefix = FALLBACK_LENGTH


(* The step in which the provider answers a call of p, and the result of   *)
(* that call.                                                              *)
ProviderAnswered(p) ==
    /\ procs[p].kind = "embed"
    /\ procs[p].pc \in {"await1", "await2"}
    /\ procs'[p].pc # procs[p].pc

AnsweredResult(p) == IF procs[p].pc = "await1" THEN procs'[p].r1 ELSE procs'[p].r2

(* The steps in which a call of p is served from the cache, and the result *)
(* of that call: the first call of a caller, or the second one that        *)
(* follows the return of the first.                                        *)
FirstCallHit(p) == FirstCallBy(p) /\ procs'[p].calls = 0 /\ procs'[p].r1.st = "ok"

SecondCallHit(p) ==
    /\ procs[p].kind = "embed"
    /\ procs[p].pc = "await1"
    /\ procs'[p].pc = "done"
    /\ procs'[p].r2.st = "ok"

(* C32: however the calls interleave, an entry enters the cache whole: it  *)
(* is a vector the provider returned to a call for a text with the entry's *)
(* key; and a cache hit returns the vector of the entry with the key of    *)
(* the text asked for.                                                     *)
C32_NoTornWrite ==
    [][/\ \A i \in 1..Len(embeddingCache') :
             \/ \E j \in 1..Len(embeddingCache) : embeddingCache[j] = embeddingCache'[i]
             \/ \E p \in Procs :
                   /\ ProviderAnswered(p)
                   /\ embeddingCache'[i].key = hashString(procs[p].text)
                   /\ embeddingCache'[i].embedding \in Vectors
                   /\ AnsweredResult(p) = Success(embeddingCache'[i].embedding)
       /\ \A p \in Procs :
             /\ FirstCallHit(p) =>
                   \E i \in 1..Len(embeddingCache') :
                       /\ embeddingCache'[i].key = hashString(procs'[p].text)
                       /\ procs'[p].r1 = Success(embeddingCache'[i].embedding)
             /\ SecondCallHit(p) =>
                   \E i \in 1..Len(embeddingCache') :
                       /\ embeddingCache'[i].key = hashString(procs'[p].text)
                       /\ procs'[p].r2 = Success(embeddingCache'[i].embedding)]_vars

(* Two callers asked for the same key while neither had an answer; the     *)
(* provider gave them different vectors, the second write replaced the     *)
(* first, and each second call was served the vector then in the cache.    *)
C32_Witness ==
    \E p, q \in Procs :
        /\ p # q
        /\ procs[p].kind = "embed" /\ procs[p].pc = "done" /\ procs[p].calls = 1
        /\ procs[q].kind = "embed" /\ procs[q].pc = "done" /\ procs[q].calls = 1
        /\ hashString(procs[p].text) = hashString(procs[q].text)
        /\ procs[p].r1.st = "ok" /\ procs[q].r1.st = "ok"
        /\ procs[p].r1.embedding # procs[q].r1.embedding
        /\ procs[p].r2 = procs[p].r1
        /\ procs[q].r2 = procs[q].r1


(* C33: the cache holds one entry for each text: a call for a text that is *)
(* served from the cache gets a vector that a call for that same text      *)
(* stored.  It is violated: the entries go by hashString(text), a 32-bit   *)
(* hash, and "BB" is served the vector stored for "Aa".                    *)
C33_AsStated ==
    \A p \in Procs :
        (procs[p].kind = "embed" /\ procs[p].calls = 0 /\ procs[p].r1.st = "ok") =>
            \E q \in Procs :
                /\ procs[q].kind = "embed"
                /\ procs[q].text = procs[p].text
                /\ procs[q].calls > 0
                /\ procs[q].r1.st = "ok" \/ procs[q].r2.st = "ok"

(* The cache holds one entry for each key. *)
C33_OneEntryPerKey ==
    \A i, j \in 1..Len(embeddingCache) :
        embeddingCache[i].key = embeddingCache[j].key => i = j

(* A call for "BB" was served the vector the provider returned for "Aa". *)
C33_OtherTextServed ==
    \E p, q \in Procs :
        /\ procs[p].kind = "embed" /\ procs[p].text = TextBB
        /\ procs[p].calls = 0 /\ procs[p].r1.st = "ok"
        /\ procs[q].kind = "embed" /\ procs[q].text = TextAa
        /\ procs[q].calls = 1 /\ procs[q].r1 = procs[p].r1


(* The steps in which a call of p is rejected for the rate limit: its      *)
(* first call (the second, made at once, is rejected with it), or the      *)
(* second call that follows a first one the provider failed.               *)
FirstCallRejected(p) ==
    FirstCallBy(p) /\ procs'[p].r1 = Failure(RateLimitReached) /\ procs'[p].calls = 0

SecondCallRejected(p) ==
    /\ procs[p].kind = "embed"
    /\ procs[p].pc = "await1"
    /\ procs'[p].pc = "done"
    /\ procs'[p].r2 = Failure(RateLimitReached)

(* after is before without some of its oldest entries, all of them older   *)
(* than the window that ends at t.                                         *)
OnlyExpiredPruned(before, after, t) ==
    \E k \in 0..Len(before) :
        /\ after = SubSeq(before, k + 1, Len(before))
        /\ \A i \in 1..k : before[i] < t - RATE_LIMIT_WINDOW

(* C34: a call rejected for the rate limit records no timestamp, reaches   *)
(* no provider and leaves the cache as it was; of the rate window it may   *)
(* only drop expired timestamps.  (A rejected call finds the budget spent  *)
(* after the prune, so in fact it has dropped none.)                       *)
C34_RejectedCallsLeaveNoTrace ==
    [][\A p \in Procs :
          FirstCallRejected(p) \/ SecondCallRejected(p) =>
              /\ OnlyExpiredPruned(embeddingCallTimestamps, embeddingCallTimestamps', now)
              /\ embeddingCache' = embeddingCache
              /\ providerCalls' = providerCalls
              /\ procs'[p].calls = (IF procs[p].kind = "embed" THEN procs[p].calls ELSE 0)]_vars

(* A caller whose first call the provider failed had its second call       *)
(* rejected, the window holding the budget and no more.                    *)
C34_Witness ==
    \E p \in Procs :
        /\ procs[p].kind = "embed" /\ procs[p].pc = "done"
        /\ procs[p].calls = 1
        /\ procs[p].r1.st = "fail"
        /\ procs[p].r2 = Failure(RateLimitReached)
        /\ Len(embeddingCallTimestamps) = EMBEDDING_RATE_LIMIT


(* The timestamps of the window that ends at t, in their order. *)
InWindow(stamps, t) ==
    LET Fresh(x) == x >= t - RATE_LIMIT_WINDOW
    IN  SelectSeq(stamps, Fresh)

IsPrefix(s, t) == Len(s) <= Len(t) /\ SubSeq(t, 1, Len(s)) = s

(* C35: a call the provider answers with an error keeps the slot it took   *)
(* of the rate budget (no timestamp of the window is given back) and       *)
(* stores nothing in the cache; the caller's next call for the same text,  *)
(* finding no entry for its key, goes to the provider again when budget    *)
(* remains.                                                                *)
C35_FailedCallKeepsItsSlot ==
    [][\A p \in Procs :
          ProviderAnswered(p) /\ AnsweredResult(p).st = "fail" =>
              /\ embeddingCache' = embeddingCache
              /\ IsPrefix(InWindow(embeddingCallTimestamps, now),
                          InWindow(embeddingCallTimestamps', now))
              /\ (/\ procs[p].pc = "await1"
                  /\ ~KeyCached(embeddingCache, procs[p].text)
                  /\ WindowCount(embeddingCallTimestamps, now) < EMBEDDING_RATE_LIMIT) =>
                     /\ procs'[p].pc = "await2"
                     /\ procs'[p].calls = 2
                     /\ providerCalls' = Append(providerCalls, now)
                     /\ embeddingCallTimestamps' =
                            Append(PruneTimestamps(embeddingCallTimestamps, now), now)]_vars

(* A caller's first call failed at the provider, its timestamp is still in *)
(* the window, and its second call for the same text is at the provider.   *)
C35_Witness ==
    \E p \in Procs :
        /\ procs[p].kind = "embed" /\ procs[p].pc = "await2"
        /\ procs[p].calls = 2
        /\ procs[p].r1.st = "fail"
        /\ ~KeyCached(embeddingCache, procs[p].text)
        /\ Len(InWindow(embeddingCallTimestamps, now)) >= 2


NonDecreasing(stamps) == \A i \in 1..(Len(stamps) - 1) : stamps[i] <= stamps[i + 1]

(* The steps in which a call of p runs canMakeEmbeddingCall: a call that   *)
(* is not served from the cache.                                           *)
FirstCallPruned(p) == FirstCallBy(p) /\ procs'[p].r1.st # "ok"

SecondCallPruned(p) ==
    /\ procs[p].kind = "embed"
    /\ procs[p].pc = "await1"
    /\ procs'[p].pc # "await1"
    /\ procs'[p].r2.st # "ok"

(* The timestamp the call recorded after the budget check, if it did. *)
RecordedNow == IF providerCalls' # providerCalls THEN 1 ELSE 0

(* C36: with a clock that never goes back the timestamps are always in     *)
(* non-decreasing order; and after the prune of canMakeEmbeddingCall every *)
(* timestamp left is of the window that ends now, so that the budget check *)
(* counts the provider calls of that window and no others.                 *)
C36_WindowIsCurrent ==
    /\ []NonDecreasing(embeddingCallTimestamps)
    /\ [][\A p \in Procs :
             FirstCallPruned(p) \/ SecondCallPruned(p) =>
                 /\ \A i \in 1..Len(embeddingCallTimestamps') :
                        embeddingCallTimestamps'[i] >= now - RATE_LIMIT_WINDOW
                 /\ Len(embeddingCallTimestamps') - RecordedNow = CallsInWindowEndingAt(now)]_vars

(* After the clock passed the window a call dropped the nine timestamps    *)
(* of the old window and recorded its own.                                 *)
C36_Witness ==
    /\ now > RATE_LIMIT_WINDOW
    /\ Len(providerCalls) = EMBEDDING_RATE_LIMIT
    /\ embeddingCallTimestamps = <<now>>


(* The uses the store has counted of a template for the invocations so     *)
(* far.                                                                    *)
CountedUses(id) ==
    Cardinality({ p \in Generations :
                    \E i \in 1..Len(procs[p].incremented) : procs[p].incremented[i] = id })

(* C37: a generation invocation asks the store to count a use once at      *)
(* most, of the template whose id it reports as chosen, and the store      *)
(* counts no use it was not asked for: each counter stands at its first    *)
(* value plus one for every invocation that chose the template and was     *)
(* counted.  An invocation that ends in error at retrieve asks for none.   *)
C37_UsageCountedOnce ==
    /\ \A p \in Generations :
          LET g == procs[p]
          IN  /\ Len(g.usage) <= 1
              /\ g.incremented \in {<<>>, g.usage}
              /\ g.pc \in {"invoking", "saving", "done"} /\ g.usage # <<>> =>
                     g.usage = <<g.templateId>>
              /\ g.step = "error" /\ g.completions = 0 => g.usage = <<>>
    /\ \A i \in 1..Len(templates) :
          /\ templates[i].id = TemplateRows[i].id
          /\ templates[i].usage_count = TemplateRows[i].usage_count + CountedUses(templates[i].id)

(* Two invocations have ended: one chose a template and the store counted  *)
(* its one use, the other ended in error at retrieve and no use was        *)
(* counted for it.                                                         *)
C37_Witness ==
    \E p, q \in Generations :
        /\ procs[p].pc = "done" /\ procs[p].step = "complete"
        /\ procs[p].incremented = <<procs[p].templateId>>
        /\ procs[q].pc = "done" /\ procs[q].step = "error" /\ procs[q].completions = 0
        /\ procs[q].usage = <<>>
        /\ \E i \in 1..Len(templates) :
              /\ templates[i].id = procs[p].templateId
              /\ templates[i].usage_count = TemplateRows[i].usage_count + 1


(* A store call of the retrieve phase of g met an exception: the listing   *)
(* (getTemplates answered nothing though the table holds templates), the   *)
(* resolution of the top candidate (getTemplate answered undefined for an  *)
(* id the table holds), or the count of the use (asked for, not counted).  *)
ListingFailed(g) == supabaseConfigured /\ g.listed = 0 /\ Len(templates) > 0

ResolutionFailed(g) ==
    /\ g.pc \in {"incrementing", "invoking"}
    /\ g.searchResult.st = "ok" /\ Len(g.searchResult.data) >= 1
    /\ g.template = NoTemplate
    /\ \E i \in 1..Len(templates) : templates[i].id = BestMatch(g.searchResult.data).template_id

CountFailed(g) == g.pc = "invoking" /\ g.usage # <<>> /\ g.incremented = <<>>

RetrieveEnded(g) == g.pc \in {"invoking", "saving", "done"}

(* C38, as the specification states it: an exception of a store call in    *)
(* the retrieve phase leads to the fallback (the first template of the     *)
(* store, useRag false, on to generate) when the store holds a template,   *)
(* and to the error phase otherwise.  No exception leaves a store call:    *)
(* each is caught in the store (storage.ts 310-342, 344-377, 419-437), and *)
(* the catch block of 254-274 is not reached by one.  A listing that fails *)
(* ends the invocation in error though the store holds templates, and a    *)
(* count that fails leaves the template of the search chosen.              *)
C38_AsStated ==
    \A p \in Generations :
        LET g == procs[p]
        IN  (/\ RetrieveEnded(g)
             /\ ListingFailed(g) \/ ResolutionFailed(g) \/ CountFailed(g)
             /\ Len(templates) > 0) =>
                /\ g.step # "error" \/ g.completions > 0
                /\ ~g.useRag
                /\ \E i \in 1..Len(templates) : templates[i].id = g.templateId

(* What the code does of the three exceptions: the invocation ends in      *)
(* error with 'No templates available', falls back with the candidates of  *)
(* the search, or goes on with the template it had chosen.                 *)
C38_StoreFailuresStayInside ==
    \A p \in Generations :
        LET g == procs[p]
        IN  /\ RetrieveEnded(g) /\ ListingFailed(g) =>
                 g.step = "error" /\ g.error = MsgNoTemplates /\ g.completions = 0
            /\ ResolutionFailed(g) /\ g.pc = "invoking" =>
                 ~g.useRag /\ g.templateId = g.allTemplates[1].id
            /\ CountFailed(g) => g.usage = <<g.templateId>>

(* A listing failed while the store held templates, and the invocation     *)
(* ended in error; for another the count failed and the search's template  *)
(* stayed chosen.                                                          *)
C38_FailuresReached ==
    \E p, q \in Generations :
        /\ RetrieveEnded(procs[p]) /\ ListingFailed(procs[p]) /\ procs[p].step = "error"
        /\ CountFailed(procs[q]) /\ procs[q].useRag


(* C39: a validation that has ended in the error phase has stored no       *)
(* status, and every contract the store still holds is as it was before    *)
(* the validation began, also when another request deleted the target      *)
(* after the retrieve phase had read it.                                   *)
C39_ErrorLeavesStatuses ==
    \A p \in Validations :
        procs[p].step = "error" =>
            /\ procs[p].updates = <<>>
            /\ \A i \in 1..Len(memContracts) :
                  \E j \in 1..Len(ValidatedContracts) : memContracts[i] = ValidatedContracts[j]

(* A validation read contract 1 in retrieve, the contract was deleted      *)
(* while the completion was awaited, and validate ended in the error       *)
(* 'Contract not found' with contract 2 still pending.                     *)
C39_Witness ==
    \E p \in Validations :
        /\ procs[p].step = "error"
        /\ procs[p].contractId = 1
        /\ procs[p].reads = 1
        /\ procs[p].completions = 1
        /\ procs[p].thrown = Thrown(TRUE, MsgContractNotFound, "")
        /\ getContract(memContracts, 1) = NoContract
        /\ StatusOf(memContracts, 2) = "pending"


(* The awaits of the workflows in the order the nodes reach them. *)
PhaseOrder ==
    << "start", "listing", "clauseEmbedding", "clauseSearching", "clauseListing", "embedding",
       "searching", "resolving", "incrementing", "invoking", "saving", "updating", "done" >>

Rank(pc) == CHOOSE i \in 1..Len(PhaseOrder) : PhaseOrder[i] = pc

Invoked(p) == procs[p].kind \in {"generate", "validate"}

InTerminalPhase(p) == Terminal(p) /\ procs[p].step \in {"complete", "error"}

(* C40: when every awaited call resolves or throws, every invocation of a  *)
(* workflow reaches a terminal phase, complete or error; each step of an   *)
(* invocation takes it to a later await or to its end, none takes it back, *)
(* and an invocation that has ended takes no further step.                 *)
C40_EveryInvocationEnds ==
    /\ \A p \in Procs : Invoked(p) ~> InTerminalPhase(p)
    /\ [][\A p \in Procs :
             Invoked(p) /\ procs'[p] # procs[p] =>
                 /\ ~InTerminalPhase(p)
                 /\ Rank(procs'[p].pc) > Rank(procs[p].pc)]_vars

(* A generation has saved its contract and a validation of a stored        *)
(* contract has stored its status, each after its completion provider      *)
(* answered.                                                               *)
C40_Witness ==
    \E p, q \in Procs :
        /\ procs[p].kind = "generate" /\ InTerminalPhase(p) /\ procs[p].step = "complete"
        /\ procs[q].kind = "validate" /\ InTerminalPhase(q) /\ procs[q].step = "complete"
        /\ procs[q].contractId = 1
        /\ procs[q].updates # <<>>

====
